---- MODULE Spec2Model ----
(***************************************************************************)
(* certvet: validation of a server certificate chain against platform      *)
(* trust stores (internal/validator, internal/truststore), the ordering of *)
(* versions (internal/version), the store filter (internal/filter), the    *)
(* parsing of fingerprints, the extraction of SCTs (internal/fetcher), the *)
(* loader of the stores and the validate command (cmd/certvet).            *)
(*                                                                         *)
(* Times are integer ticks; a calendar day has TicksPerDay ticks, so that  *)
(* Format(DateFormat) loses the time of day as the Go layout "2006-01-02"  *)
(* does.  A nil pointer or an absent value is the empty sequence <<>>, a   *)
(* set value is the one-element sequence <<v>>.                            *)
(***************************************************************************)
EXTENDS Integers, Sequences, FiniteSets, TLC

VARIABLES
    chain,      \* *truststore.CertChain handed to ValidateChain
    stores,     \* []truststore.Store handed to ValidateChain
    Certs,      \* truststore.Certs: the registry, fingerprint -> certificate
    now,        \* the wall clock read by time.Now()
    pc,         \* position of the ValidateChain caller goroutine
    loopI,      \* loop variable i of "for i, store := range stores"
    wg,         \* sync.WaitGroup counter
    results,    \* the pre-allocated results slice
    ret,        \* <<v>> once ValidateChain returned v, <<>> before
    task,       \* per-store goroutine: position, arguments, locals
    slotLog,    \* history: every access of a goroutine to a results slot
    call,       \* a function of the other packages under study and its arguments
    reply       \* <<v>> once that function returned v, <<>> before

vars == <<chain, stores, Certs, now, pc, loopI, wg, results, ret, task, slotLog, call, reply>>

\* the variables of ValidateChain
validation == <<chain, stores, Certs, now, pc, loopI, wg, results, ret, task, slotLog>>

(***************************************************************************)
(* Bounds                                                                  *)
(***************************************************************************)
MaxStores == 2
MaxTime == 3
MaxReads == 5
MaxSCTs == 2
MaxFingerprints == 2
TicksPerDay == 2

(***************************************************************************)
(* Helpers on sequences                                                    *)
(***************************************************************************)
Range(s) == {s[k] : k \in 1..Len(s)}

SeqsUpTo(S, n) == UNION {[1..k -> S] : k \in 0..n}

NoDupSeqsUpTo(S, n) ==
    {s \in SeqsUpTo(S, n) : \A a, b \in 1..Len(s) : a # b => s[a] # s[b]}

(***************************************************************************)
(* truststore/types.go                                                     *)
(***************************************************************************)
\* a Platform is a Go string: the sequence of its bytes
PlatformIOS == <<105, 111, 115>>
PlatformAndroid == <<97, 110, 100, 114, 111, 105, 100>>
PlatformWindows == <<119, 105, 110, 100, 111, 119, 115>>

SCTSourceTLS == "TLS"
SCTSourceEmbedded == "Embedded"

\* time.Time.After read as "not before": an equal instant counts as after
AfterOrEqual(t, u) == t >= u

\* time.Time.After
After(t, u) == t > u

\* time.Time.Format(truststore.DateFormat): the calendar day of the instant
Format(t) == t \div TicksPerDay

EmptyConstraints == [NotBeforeMax |-> <<>>, DistrustDate |-> <<>>, SCTNotAfter |-> <<>>]

IsEmpty(c) == c.NotBeforeMax = <<>> /\ c.DistrustDate = <<>> /\ c.SCTNotAfter = <<>>

\* Store.ConstraintFor: a nil map and a missing key both give the zero value
ConstraintFor(s, fp) ==
    IF fp \in DOMAIN s.Constraints THEN s.Constraints[fp] ELSE EmptyConstraints

\* the zero value of TrustResult, as make([]TrustResult, n) fills the slice
ZeroResult ==
    [Platform |-> [Platform |-> <<>>, Version |-> <<>>], Trusted |-> FALSE,
     MatchedCA |-> "", VerifiedChain |-> <<>>, FailureReason |-> <<>>]

(***************************************************************************)
(* truststore/fingerprint.go                                               *)
(***************************************************************************)
HexDigits == <<"0","1","2","3","4","5","6","7","8","9","A","B","C","D","E","F">>

HexPair(b) == HexDigits[(b \div 16) + 1] \o HexDigits[(b % 16) + 1]

\* FingerprintFromCert: the SHA-256 digest of the certificate's DER bytes
FingerprintFromCert(cert) == cert.Digest

RECURSIVE JoinColon(_)
JoinColon(f) ==
    IF Len(f) = 0 THEN ""
    ELSE IF Len(f) = 1 THEN HexPair(f[1])
    ELSE HexPair(f[1]) \o ":" \o JoinColon(Tail(f))

\* Fingerprint.String: uppercase hex pairs joined by ':'
FpString(f) == JoinColon(f)

(***************************************************************************)
(* The certificates of the modelled PKI.  SubjectKey names the subject and *)
(* its key, IssuerKey the subject and key that signed the certificate.     *)
(***************************************************************************)
MkCert(digest, cn, org, subj, iss, ca, nb, na) ==
    [Digest |-> digest, Subject |-> [CommonName |-> cn, Organization |-> org],
     SubjectKey |-> subj, IssuerKey |-> iss, IsCA |-> ca,
     NotBefore |-> nb, NotAfter |-> na, ExtKeyUsage |-> <<>>]

\* self-signed roots: with a CommonName, with Organizations only, with neither
CertR1 == MkCert(<<171, 1>>, "Root One", <<"Org One">>, "r1", "r1", TRUE, 0, 9)
CertR2 == MkCert(<<171, 2>>, "", <<"Org Two", "Org Alt">>, "r2", "r2", TRUE, 0, 9)
CertR3 == MkCert(<<171, 3>>, "", <<>>, "r3", "r3", TRUE, 0, 9)
\* a root whose validity begins while the clock of the model runs
CertR4 == MkCert(<<171, 4>>, "Root Four", <<>>, "r4", "r4", TRUE, 2, 9)
\* intermediates: i1 under r1; x cross-signed by r1 and by r2
CertI1 == MkCert(<<205, 1>>, "Inter One", <<>>, "i1", "r1", TRUE, 0, 9)
CertX1 == MkCert(<<205, 2>>, "Cross", <<>>, "x", "r1", TRUE, 0, 9)
CertX2 == MkCert(<<205, 3>>, "Cross", <<>>, "x", "r2", TRUE, 0, 9)
\* leaves
LeafR1 == MkCert(<<14, 1>>, "a.example", <<>>, "la", "r1", FALSE, 1, 9)
LeafR2 == MkCert(<<14, 2>>, "b.example", <<>>, "lb", "r2", FALSE, 1, 9)
LeafR3 == MkCert(<<14, 3>>, "c.example", <<>>, "lc", "r3", FALSE, 1, 9)
LeafI1 == MkCert(<<14, 4>>, "d.example", <<>>, "ld", "i1", FALSE, 1, 9)
LeafX == MkCert(<<14, 5>>, "e.example", <<>>, "le", "x", FALSE, 1, 9)
LeafUnknown == MkCert(<<14, 6>>, "f.example", <<>>, "lf", "nobody", FALSE, 1, 9)
LeafShort == MkCert(<<14, 7>>, "g.example", <<>>, "lg", "r1", FALSE, 1, 2)
\* under the late root: a leaf valid throughout, a leaf that expires before
\* the root becomes valid
LeafR4 == MkCert(<<14, 8>>, "h.example", <<>>, "lh", "r4", FALSE, 1, 9)
LeafEarly == MkCert(<<14, 9>>, "i.example", <<>>, "li", "r4", FALSE, 1, 1)
\* a leaf for client authentication only
LeafClient ==
    [MkCert(<<14, 10>>, "j.example", <<>>, "lj", "r1", FALSE, 1, 9)
        EXCEPT !.ExtKeyUsage = <<"ClientAuth">>]

Roots == {CertR1, CertR2, CertR3, CertR4}

(***************************************************************************)
(* validator.go: certificate lookup and path verification                  *)
(***************************************************************************)
\* getCertByFingerprint: truststore.Certs[fp], nil when absent
getCertByFingerprint(registry, fp) ==
    IF fp \in DOMAIN registry THEN <<registry[fp]>> ELSE <<>>

\* x509.CertPool.AddCert: a certificate already in the pool is not added again
AddCert(pool, cert) ==
    IF cert \in Range(pool) THEN pool ELSE Append(pool, cert)

RECURSIVE PoolFrom(_, _)
PoolFrom(pool, certs) ==
    IF certs = <<>> THEN pool ELSE PoolFrom(AddCert(pool, Head(certs)), Tail(certs))

\* lines 53-61, the resolved half: the certificates found for the fingerprints
RECURSIVE rootCertsOf(_, _)
rootCertsOf(registry, fps) ==
    IF fps = <<>> THEN <<>>
    ELSE getCertByFingerprint(registry, Head(fps)) \o rootCertsOf(registry, Tail(fps))

\* lines 53-61, the other half: the fingerprints with no certificate
missingFingerprintsOf(registry, fps) ==
    {fp \in Range(fps) : getCertByFingerprint(registry, fp) = <<>>}

NoError == [Type |-> "", Reason |-> "", Detail |-> "", Host |-> "", Text |-> ""]

UnknownAuthorityError ==
    [Type |-> "UnknownAuthorityError", Reason |-> "", Detail |-> "", Host |-> "",
     Text |-> "x509: certificate signed by unknown authority"]

ExpiredError ==
    [Type |-> "CertificateInvalidError", Reason |-> "Expired", Detail |-> "", Host |-> "",
     Text |-> "x509: certificate has expired or is not yet valid"]

NotAuthorizedToSignError ==
    [Type |-> "CertificateInvalidError", Reason |-> "NotAuthorizedToSign", Detail |-> "",
     Host |-> "", Text |-> "x509: certificate is not authorized to sign other certificates"]

IncompatibleUsageError ==
    [Type |-> "CertificateInvalidError", Reason |-> "IncompatibleUsage", Detail |-> "",
     Host |-> "", Text |-> "x509: certificate specifies an incompatible key usage"]

leafCertificate == "leaf"
intermediateCertificate == "intermediate"
rootCertificate == "root"

\* VerifyOptions carries no CurrentTime, so every call of isValid reads
\* time.Now() itself.  clock lists the readings of one Verify in the order
\* of the calls; readings past its end repeat the last one.
ReadingAt(clock, n) == IF n <= Len(clock) THEN clock[n] ELSE clock[Len(clock)]

\* Certificate.isValid at the reading t: the validity period, then the CA
\* bit of an intermediate.  The certificates of the model carry no name
\* constraints and no path length.
isValid(certType, c, t) ==
    IF t < c.NotBefore \/ After(t, c.NotAfter) THEN ExpiredError
    ELSE IF certType = intermediateCertificate /\ ~c.IsCA THEN NotAuthorizedToSignError
    ELSE NoError

\* alreadyInChain: same subject and same key
alreadyInChain(candidate, current) ==
    \E k \in 1..Len(current) : current[k].SubjectKey = candidate.SubjectKey

\* CertPool.findPotentialParents: the certificates of the pool that carry
\* the issuer's name.  The certificates of the model carry no key
\* identifiers, so the candidates come in the order of the pool.
findPotentialParents(pool, c) == SelectSeq(pool, LAMBDA p : p.SubjectKey = c.IssuerKey)

\* CheckSignatureFrom on a candidate found by name: in the model the name
\* stands for the key too, so the signature fits; a version 3 certificate
\* that is not a CA is refused as a signer
CheckSignatureFrom(parent) == parent.IsCA

\* Certificate.buildChains and its closure considerCandidate.  acc holds
\* chains and err, the named results of buildChains, and reads, the number
\* of clock readings taken so far in this Verify.
RECURSIVE buildChains(_, _, _, _, _)
RECURSIVE considerCandidates(_, _, _, _, _, _, _)
considerCandidates(current, cands, k, acc, rootPool, interPool, clock) ==
    IF k > Len(cands) THEN acc
    ELSE LET cand == cands[k]
             e == isValid(cand.certType, cand.cert, ReadingAt(clock, acc.reads + 1))
             longer == Append(current, cand.cert)
             child == buildChains(longer, rootPool, interPool, clock, acc.reads + 1)
             after ==
                 IF alreadyInChain(cand.cert, current) \/ ~CheckSignatureFrom(cand.cert)
                 THEN acc
                 ELSE IF e # NoError THEN [acc EXCEPT !.err = e, !.reads = @ + 1]
                 ELSE IF cand.certType = rootCertificate
                 THEN [chains |-> Append(acc.chains, longer), err |-> NoError,
                       reads |-> acc.reads + 1]
                 ELSE [chains |-> acc.chains \o child.chains, err |-> child.err,
                       reads |-> child.reads]
         IN  considerCandidates(current, cands, k + 1, after, rootPool, interPool, clock)

\* the candidates among the roots are considered first, then those among
\* the intermediates; err is what the last candidate examined left there
buildChains(current, rootPool, interPool, clock, reads) ==
    LET c == current[Len(current)]
        fromRoots == findPotentialParents(rootPool, c)
        fromInters == findPotentialParents(interPool, c)
        cands == [k \in 1..Len(fromRoots) |-> [certType |-> rootCertificate, cert |-> fromRoots[k]]]
                    \o [k \in 1..Len(fromInters) |->
                            [certType |-> intermediateCertificate, cert |-> fromInters[k]]]
        r == considerCandidates(current, cands, 1,
                                [chains |-> <<>>, err |-> NoError, reads |-> reads],
                                rootPool, interPool, clock)
    IN  IF Len(r.chains) > 0 THEN [r EXCEPT !.err = NoError]
        ELSE IF r.err = NoError THEN [r EXCEPT !.err = UnknownAuthorityError]
        ELSE r

\* checkChainForKeyUsage for the one usage Verify asks for when the options
\* name none, ExtKeyUsageServerAuth: every certificate of the chain that
\* lists extended key usages lists that one or ExtKeyUsageAny
checkChainForKeyUsage(candidate) ==
    \A k \in 1..Len(candidate) :
        \/ candidate[k].ExtKeyUsage = <<>>
        \/ "Any" \in Range(candidate[k].ExtKeyUsage)
        \/ "ServerAuth" \in Range(candidate[k].ExtKeyUsage)

\* chain.ServerCert.Verify(opts): the leaf is checked, a leaf that is one of
\* the roots is its own chain, the chains built are filtered by key usage
Verify(leaf, rootPool, interPool, clock) ==
    LET e == isValid(leafCertificate, leaf, ReadingAt(clock, 1))
        built == IF leaf \in Range(rootPool)
                 THEN [chains |-> << <<leaf>> >>, err |-> NoError, reads |-> 1]
                 ELSE buildChains(<<leaf>>, rootPool, interPool, clock, 1)
        usable == SelectSeq(built.chains, checkChainForKeyUsage)
    IN  IF e # NoError THEN [chains |-> <<>>, err |-> e]
        ELSE IF built.err # NoError THEN [chains |-> <<>>, err |-> built.err]
        ELSE IF usable = <<>> THEN [chains |-> <<>>, err |-> IncompatibleUsageError]
        ELSE [chains |-> usable, err |-> NoError]

\* parseVerifyError with no text for any error
parseVerifyErrorSilent(err) == <<>>

parseVerifyError(err) ==
    IF err.Type = "UnknownAuthorityError" THEN <<"certificate signed by unknown authority">>
    ELSE IF err.Type = "CertificateInvalidError" /\ err.Reason = "Expired"
        THEN <<"certificate has expired or is not yet valid">>
    ELSE IF err.Type = "CertificateInvalidError" /\ err.Reason = "NotAuthorizedToSign"
        THEN <<"certificate is not authorized to sign other certificates">>
    ELSE IF err.Type = "CertificateInvalidError" /\ err.Reason = "TooManyIntermediates"
        THEN <<"too many intermediates for path length constraint">>
    ELSE IF err.Type = "CertificateInvalidError" /\ err.Reason = "IncompatibleUsage"
        THEN <<"certificate specifies an incompatible key usage">>
    ELSE IF err.Type = "CertificateInvalidError" /\ err.Reason = "NameMismatch"
        THEN <<"issuer name does not match subject">>
    ELSE IF err.Type = "CertificateInvalidError" /\ err.Reason = "CANotAuthorizedForThisName"
        THEN <<"CA is not authorized for this name">>
    ELSE IF err.Type = "CertificateInvalidError" /\ err.Detail # ""
        THEN <<err.Detail>>
    ELSE IF err.Type = "HostnameError"
        THEN <<"certificate is not valid for %s", err.Host>>
    ELSE <<err.Text>>

(***************************************************************************)
(* validator.go: checkConstraints and validateAgainstStore                 *)
(***************************************************************************)
\* hasValidSCT with only the first SCT of the list examined
hasValidSCTFirstOnly(scts, deadline) ==
    Len(scts) > 0 /\ ~After(scts[1].Timestamp, deadline)

\* lines 152-158: at least one SCT not after the deadline
hasValidSCT(scts, deadline) ==
    \E k \in 1..Len(scts) : ~After(scts[k].Timestamp, deadline)

\* lines 128-129
notBeforeMaxViolated(ch, c) ==
    c.NotBeforeMax # <<>> /\ After(ch.ServerCert.NotBefore, c.NotBeforeMax[1])

\* the distrust date compared with the leaf's issuance instead of the clock
distrustViolatedAtIssuance(ch, c, t) ==
    c.DistrustDate # <<>> /\ After(ch.ServerCert.NotBefore, c.DistrustDate[1])

\* lines 137-138; t is the value of time.Now() at line 124
distrustViolated(ch, c, t) ==
    c.DistrustDate # <<>> /\ After(t, c.DistrustDate[1])

\* lines 130-132
notBeforeMaxReason(ch, c) ==
    <<"certificate issued after trust cutoff (%s > %s)",
      Format(ch.ServerCert.NotBefore), Format(c.NotBeforeMax[1])>>

\* lines 139-140
distrustReason(c) == <<"CA distrusted since %s", Format(c.DistrustDate[1])>>

\* lines 145-163: the SCT deadline; <<>> when it is absent or satisfied
sctViolation(ch, c) ==
    IF c.SCTNotAfter = <<>> THEN <<>>
    ELSE IF Len(ch.SCTs) = 0
        THEN <<"SCT required but none found (deadline: %s)", Format(c.SCTNotAfter[1])>>
    ELSE IF ~hasValidSCT(ch.SCTs, c.SCTNotAfter[1])
        THEN <<"all SCTs issued after deadline (%s)", Format(c.SCTNotAfter[1])>>
    ELSE <<>>

\* checkConstraints with the distrust date examined before the issuance cutoff
checkConstraintsDistrustFirst(ch, c, t) ==
    IF IsEmpty(c) THEN <<>>
    ELSE IF distrustViolated(ch, c, t) THEN distrustReason(c)
    ELSE IF notBeforeMaxViolated(ch, c) THEN notBeforeMaxReason(ch, c)
    ELSE sctViolation(ch, c)

\* checkConstraints; t is the value of time.Now() at line 124
checkConstraints(ch, c, t) ==
    IF IsEmpty(c) THEN <<>>
    ELSE IF notBeforeMaxViolated(ch, c) THEN notBeforeMaxReason(ch, c)
    ELSE IF distrustViolated(ch, c, t) THEN distrustReason(c)
    ELSE sctViolation(ch, c)

\* lines 45-46: the result starts as the zero value with the store's identity
NewResult(store) ==
    [ZeroResult EXCEPT !.Platform = [Platform |-> store.Platform, Version |-> store.Version]]

\* the display name taken from the CommonName alone
MatchedCAOfCommonNameOnly(rootCert) == rootCert.Subject.CommonName

\* line 63 with the store's fingerprints counted instead of the resolved roots
NoRootsByFingerprints(rootCerts, store) == Len(store.Fingerprints) = 0

\* line 63: no fingerprint of the store resolved to a certificate
NoRoots(rootCerts, store) == Len(rootCerts) = 0

\* the first supplied intermediate instead of the last
FirstIntermediate(ch) == ch.Intermediates[1]

\* line 84: chain.Intermediates[n-1]
LastIntermediate(ch) == ch.Intermediates[Len(ch.Intermediates)]

\* lines 98-101: the display name of the matched root
MatchedCAOf(rootCert) ==
    IF rootCert.Subject.CommonName = "" /\ Len(rootCert.Subject.Organization) > 0
    THEN rootCert.Subject.Organization[1]
    ELSE rootCert.Subject.CommonName

\* lines 45-92: up to and including the verification; clock lists the clock
\* readings of Verify.  done tells that the function has returned.
VerifyStep(ch, store, registry, clock) ==
    LET result == NewResult(store)
        rootCerts == rootCertsOf(registry, store.Fingerprints)
        missing == missingFingerprintsOf(registry, store.Fingerprints)
        n == Len(ch.Intermediates)
    IN  IF NoRoots(rootCerts, store)
        THEN [done |-> TRUE, calls |-> 0, chains |-> <<>>,
              result |-> [result EXCEPT !.FailureReason =
                              <<"no valid root certificates in trust store">>]]
        ELSE LET v == Verify(ch.ServerCert, PoolFrom(<<>>, rootCerts),
                             PoolFrom(<<>>, ch.Intermediates), clock)
             IN  IF v.err # NoError
                 THEN IF n > 0 /\ FingerprintFromCert(LastIntermediate(ch)) \in missing
                      THEN [done |-> TRUE, calls |-> 1, chains |-> <<>>,
                            result |-> [result EXCEPT !.FailureReason =
                                <<"chain roots at known CA (fingerprint %s) but certificate data unavailable",
                                  FpString(FingerprintFromCert(LastIntermediate(ch)))>>]]
                      ELSE [done |-> TRUE, calls |-> 1, chains |-> <<>>,
                            result |-> [result EXCEPT !.FailureReason = parseVerifyError(v.err)]]
                 ELSE [done |-> FALSE, calls |-> 1, chains |-> v.chains, result |-> result]

\* lines 94-115: after a successful verification; t is time.Now() of checkConstraints
ConstraintStep(ch, store, result, chains, t) ==
    IF Len(chains) > 0 /\ Len(chains[1]) > 0
    THEN LET rootCert == chains[1][Len(chains[1])]
             named == [result EXCEPT !.VerifiedChain = chains[1],
                                     !.MatchedCA = MatchedCAOf(rootCert)]
             violation == checkConstraints(ch, ConstraintFor(store, FingerprintFromCert(rootCert)), t)
         IN  IF violation # <<>>
             THEN [named EXCEPT !.Trusted = FALSE, !.FailureReason = violation]
             ELSE [named EXCEPT !.Trusted = TRUE]
    ELSE [result EXCEPT !.Trusted = TRUE]

\* validateAgainstStore as a function of its inputs, of the clock readings
\* of Verify and of the reading of checkConstraints
validateAgainstStore(ch, store, registry, tVerify, tCheck) ==
    LET v == VerifyStep(ch, store, registry, tVerify)
    IN  IF v.done THEN v.result
        ELSE ConstraintStep(ch, store, v.result, v.chains, tCheck)

(***************************************************************************)
(* ValidateChain: the caller goroutine and one goroutine per store         *)
(***************************************************************************)
ZeroStore == [Platform |-> <<>>, Version |-> <<>>, Fingerprints |-> <<>>, Constraints |-> <<>>]

IdleTask ==
    [pc |-> "idle", idx |-> 0, s |-> ZeroStore, result |-> ZeroResult, chains |-> <<>>,
     tStart |-> 0, tVerify |-> <<>>, tCheck |-> <<>>, verifyCalls |-> 0]

RECURSIVE NonDecreasing(_, _, _)
\* the sequences of n instants between lo and hi that never step back
NonDecreasing(n, lo, hi) ==
    IF n = 0 THEN {<<>>}
    ELSE UNION {{<<t>> \o rest : rest \in NonDecreasing(n - 1, t, hi)} : t \in lo..hi}

RECURSIVE ReadsOfBuild(_, _)
\* a limit of the calls of isValid in buildChains with r roots and l
\* intermediates not yet in the chain: one for each root, one for each
\* intermediate and those of the chains that go through it
ReadsOfBuild(r, l) == IF l = 0 THEN r ELSE r + l * (1 + ReadsOfBuild(r, l - 1))

\* a limit of the clock readings of Verify: the leaf, then buildChains
ReadsOfVerify(ch, store, registry) ==
    LET most == 1 + ReadsOfBuild(Len(rootCertsOf(registry, store.Fingerprints)),
                                 Len(ch.Intermediates))
    IN  IF most < MaxReads THEN most ELSE MaxReads

\* what the calls of time.Now() of one Verify may read, in their order,
\* when the goroutine started at instant lo and Verify returns at instant hi
Clocks(ch, store, registry, lo, hi) ==
    NonDecreasing(ReadsOfVerify(ch, store, registry), lo, hi)

\* what lines 45-92 may come to between the instants lo and hi
VerifyOutcomes(ch, store, registry, lo, hi) ==
    {VerifyStep(ch, store, registry, clock) : clock \in Clocks(ch, store, registry, lo, hi)}

\* the goroutine reading the loop variable store, which by then holds the
\* last element, instead of its own copy
GoArgsSharedStore(i, store) == [idx |-> i, s |-> stores[Len(stores)]]

\* the goroutine given the first slot whatever its store
GoArgsFirstSlot(i, store) == [idx |-> 1, s |-> store]

\* lines 33-36: idx and s are passed to the goroutine by value
GoArgs(i, store) == [idx |-> i, s |-> store]

\* the caller not waiting for the goroutines
WaitDoneAtOnce(counter) == TRUE

\* line 39: wg.Wait() returns once the counter is zero
WaitDone(counter) == counter = 0

\* goroutines finished so far
Assigned == {j \in DOMAIN task : task[j].pc \in {"assigned", "done"}}

\* the result stored in completion order instead of at the store's index
WriteSlotInCompletionOrder(k, slot, value) ==
    /\ results' = [results EXCEPT ![Cardinality(Assigned) + 1] = value]
    /\ slotLog' = [slotLog EXCEPT !.writes[Cardinality(Assigned) + 1] = Append(@, k),
                                  !.overtaken = @ \/ \E j \in 1..(k - 1) : j \notin Assigned]

\* line 35: the assignment results[idx] = ...; the history records the
\* writer, and whether it finished before a goroutine started earlier
WriteSlot(k, slot, value) ==
    /\ results' = [results EXCEPT ![slot] = value]
    /\ slotLog' = [slotLog EXCEPT !.writes[slot] = Append(@, k),
                                  !.overtaken = @ \/ \E j \in 1..(k - 1) : j \notin Assigned]

\* Call with the stores slice reordered in place on entry
CallReorderingStores ==
    /\ pc = "start"
    /\ stores' = [k \in 1..Len(stores) |-> stores[Len(stores) + 1 - k]]
    /\ IF Len(stores) = 0
       THEN /\ pc' = "returned"
            /\ ret' = << <<>> >>
            /\ UNCHANGED <<results, loopI>>
       ELSE /\ pc' = "loop"
            /\ results' = [k \in 1..Len(stores) |-> ZeroResult]
            /\ loopI' = 1
            /\ ret' = ret
    /\ UNCHANGED <<call, reply, chain, Certs, now, wg, task, slotLog>>

\* lines 23-28: the empty case returns nil, otherwise the slice is allocated
Call ==
    /\ pc = "start"
    /\ IF Len(stores) = 0
       THEN /\ pc' = "returned"
            /\ ret' = << <<>> >>
            /\ UNCHANGED <<results, loopI>>
       ELSE /\ pc' = "loop"
            /\ results' = [k \in 1..Len(stores) |-> ZeroResult]
            /\ loopI' = 1
            /\ ret' = ret
    /\ UNCHANGED <<call, reply, chain, stores, Certs, now, wg, task, slotLog>>

\* lines 31-37: one iteration of the loop starts one goroutine
Spawn ==
    /\ pc = "loop"
    /\ loopI <= Len(stores)
    /\ wg' = wg + 1
    /\ LET a == GoArgs(loopI, stores[loopI])
       IN  task' = [task EXCEPT ![loopI] = [@ EXCEPT !.pc = "started", !.idx = a.idx, !.s = a.s,
                                                     !.tStart = now]]
    /\ loopI' = loopI + 1
    /\ pc' = IF loopI = Len(stores) THEN "wait" ELSE "loop"
    /\ UNCHANGED <<call, reply, chain, stores, Certs, now, results, ret, slotLog>>

\* goroutine k runs validateAgainstStore up to the verification, which
\* ends at this instant; its calls of time.Now() fell between the start of
\* the goroutine and now, the clock advancing in between as it may.  When
\* the function returns there, line 35 stores the result.
TaskVerify(k) ==
    /\ task[k].pc = "started"
    /\ \E v \in VerifyOutcomes(chain, task[k].s, Certs, task[k].tStart, now) :
          LET a == task[k]
          IN  IF v.done
              THEN /\ WriteSlot(k, a.idx, v.result)
                   /\ task' = [task EXCEPT ![k] = [@ EXCEPT !.pc = "assigned",
                                      !.result = v.result, !.tStart = 0, !.tVerify = <<now>>,
                                      !.verifyCalls = @ + v.calls]]
              ELSE /\ task' = [task EXCEPT ![k] = [@ EXCEPT !.pc = "verified",
                                      !.result = v.result, !.chains = v.chains, !.tStart = 0,
                                      !.tVerify = <<now>>, !.verifyCalls = @ + v.calls]]
                   /\ UNCHANGED <<results, slotLog>>
    /\ UNCHANGED <<call, reply, chain, stores, Certs, now, pc, loopI, wg, ret>>

\* goroutine k finishes validateAgainstStore after a successful verification
\* and line 35 stores the result
TaskCheck(k) ==
    /\ task[k].pc = "verified"
    /\ LET a == task[k]
           r == ConstraintStep(chain, a.s, a.result, a.chains, now)
       IN  /\ WriteSlot(k, a.idx, r)
           /\ task' = [task EXCEPT ![k] = [@ EXCEPT !.pc = "assigned", !.result = r,
                                                    !.tCheck = <<now>>]]
    /\ UNCHANGED <<call, reply, chain, stores, Certs, now, pc, loopI, wg, ret>>

\* line 34: the deferred wg.Done()
TaskDone(k) ==
    /\ task[k].pc = "assigned"
    /\ wg' = wg - 1
    /\ task' = [task EXCEPT ![k] = [@ EXCEPT !.pc = "done"]]
    /\ UNCHANGED <<call, reply, chain, stores, Certs, now, pc, loopI, results, ret, slotLog>>

\* lines 39-41: wg.Wait() and the return of the slice
Return ==
    /\ pc = "wait"
    /\ WaitDone(wg)
    /\ ret' = <<results>>
    /\ pc' = "returned"
    /\ UNCHANGED <<call, reply, chain, stores, Certs, now, loopI, wg, results, task, slotLog>>

\* the wall clock advances while ValidateChain runs
Tick ==
    /\ pc # "returned"
    /\ now < MaxTime
    /\ now' = now + 1
    /\ UNCHANGED <<call, reply, chain, stores, Certs, pc, loopI, wg, results, ret, task, slotLog>>

Next ==
    \/ Call
    \/ Spawn
    \/ \E k \in DOMAIN task : TaskVerify(k)
    \/ \E k \in DOMAIN task : TaskCheck(k)
    \/ \E k \in DOMAIN task : TaskDone(k)
    \/ Return
    \/ Tick

(***************************************************************************)
(* Inputs                                                                  *)
(***************************************************************************)
Fp(cert) == FingerprintFromCert(cert)

\* a registry holding exactly the certificates of S, keyed by fingerprint
RegistryOf(S) == [fp \in {Fp(c) : c \in S} |-> CHOOSE c \in S : Fp(c) = fp]

MkStore(pv, fps, cons) ==
    [Platform |-> pv.Platform, Version |-> pv.Version, Fingerprints |-> fps, Constraints |-> cons]

MkChain(leaf, inters, scts) ==
    [Endpoint |-> "test.example.com", ServerCert |-> leaf, Intermediates |-> inters, SCTs |-> scts]

MkSCT(ts, src) == [Timestamp |-> ts, LogID |-> 0, Source |-> src]

\* constraint dates around the leaves' NotBefore (1) and inside the clock's range
ConstraintValues ==
    [NotBeforeMax : {<<>>, <<0>>, <<1>>}, DistrustDate : {<<>>, <<2>>}, SCTNotAfter : {<<>>, <<2>>}]

\* the Constraints maps a store over fps may carry: none, or one entry
ConstraintMaps(fps, values) ==
    {<<>>} \cup {[f \in {g} |-> c] : g \in Range(fps), c \in values \ {EmptyConstraints}}

SCTValues == {MkSCT(ts, src) : ts \in {2, 3}, src \in {SCTSourceTLS, SCTSourceEmbedded}}

InitControl ==
    /\ now = 1
    /\ pc = "start"
    /\ loopI = 0
    /\ wg = 0
    /\ results = <<>>
    /\ ret = <<>>
    /\ task = [k \in 1..Len(stores) |-> IdleTask]
    /\ slotLog = [writes |-> [k \in 1..Len(stores) |-> <<>>], reads |-> {}, overtaken |-> FALSE]
    /\ call = <<>>
    /\ reply = <<>>

\* Several stores at once: a trusted store, a store with a distrust date that
\* passes during the run, a store whose only root is not in the registry
ManyStores ==
    {MkStore([Platform |-> PlatformIOS, Version |-> <<49, 56>>], <<Fp(CertR1)>>, <<>>),
     MkStore([Platform |-> PlatformIOS, Version |-> <<49, 55>>], <<Fp(CertR1)>>,
             [g \in {Fp(CertR1)} |-> [EmptyConstraints EXCEPT !.DistrustDate = <<2>>]]),
     MkStore([Platform |-> PlatformAndroid, Version |-> <<51, 53>>], <<Fp(CertR3)>>, <<>>)}

Init ==
    /\ chain \in {MkChain(LeafR1, <<>>, <<>>), MkChain(LeafShort, <<>>, <<>>)}
    /\ stores \in SeqsUpTo(ManyStores, MaxStores)
    /\ Certs = RegistryOf({CertR1, CertR2})
    /\ InitControl

Spec == Init /\ [][Next]_vars

\* One store, every shape of chain and registry: which roots resolve, which
\* path the verification finds
PathChains ==
    {MkChain(LeafR1, <<>>, <<>>), MkChain(LeafR1, <<CertR1>>, <<>>),
     MkChain(LeafR2, <<>>, <<>>), MkChain(LeafR2, <<CertR2>>, <<>>),
     MkChain(LeafR3, <<>>, <<>>), MkChain(LeafR3, <<CertR3>>, <<>>),
     MkChain(LeafI1, <<>>, <<>>), MkChain(LeafI1, <<CertI1>>, <<>>),
     MkChain(LeafI1, <<CertI1, CertR1>>, <<>>),
     MkChain(LeafX, <<CertX1, CertX2>>, <<>>), MkChain(LeafX, <<CertX2, CertX1>>, <<>>),
     MkChain(LeafUnknown, <<>>, <<>>), MkChain(LeafUnknown, <<CertR1>>, <<>>),
     MkChain(LeafShort, <<>>, <<>>), MkChain(LeafShort, <<CertR1>>, <<>>),
     MkChain(LeafR4, <<>>, <<>>), MkChain(LeafEarly, <<>>, <<>>),
     MkChain(LeafClient, <<>>, <<>>), MkChain(CertR1, <<>>, <<>>)}

\* the stores over the given roots, without constraints
StoresOver(roots) ==
    {MkStore([Platform |-> PlatformIOS, Version |-> <<49, 56>>], fps, <<>>) :
        fps \in NoDupSeqsUpTo({Fp(c) : c \in roots}, MaxFingerprints)}

PathStores == StoresOver(Roots)

InitPath ==
    /\ chain \in PathChains
    /\ \E st \in PathStores :
          \E cons \in ConstraintMaps(st.Fingerprints,
                        {[EmptyConstraints EXCEPT !.DistrustDate = <<2>>]}) :
             stores = <<[st EXCEPT !.Constraints = cons]>>
    /\ Certs \in {RegistryOf(S) : S \in SUBSET Roots}
    /\ InitControl

SpecPath == InitPath /\ [][Next]_vars

\* One store, every combination of constraints on one of its roots, every
\* short list of SCTs
InitConstraints ==
    /\ \E leaf \in {LeafR1, LeafR2}, scts \in SeqsUpTo(SCTValues, MaxSCTs) :
          chain = MkChain(leaf, <<>>, scts)
    /\ \E st \in StoresOver({CertR1, CertR2, CertR3}) :
          \E cons \in ConstraintMaps(st.Fingerprints, ConstraintValues) :
             stores = <<[st EXCEPT !.Constraints = cons]>>
    /\ Certs = RegistryOf(Roots)
    /\ InitControl

SpecConstraints == InitConstraints /\ [][Next]_vars

(***************************************************************************)
(* Properties of ValidateChain                                             *)
(***************************************************************************)
Returned == ret # <<>>

StoreIdentity(store) == [Platform |-> store.Platform, Version |-> store.Version]

\* C1: ValidateChain returns exactly one TrustResult per input store, in
\* input order: the result at index i carries the Platform and Version of
\* stores[i], whatever the order in which the goroutines complete; an empty
\* store list yields no results.
C1_OnePerStoreInInputOrder ==
    Returned =>
        /\ Len(ret[1]) = Len(stores)
        /\ \A n \in 1..Len(stores) : ret[1][n].Platform = StoreIdentity(stores[n])

\* two stores of different identity, the second goroutine finishing first
C1_Witness ==
    /\ Returned
    /\ Len(stores) = 2
    /\ StoreIdentity(stores[1]) # StoreIdentity(stores[2])
    /\ slotLog.overtaken
    /\ ret[1][2].Platform = StoreIdentity(stores[2])

\* the clock readings of goroutine n; a reading never taken is immaterial
ReadingOf(r) == IF r = <<>> THEN 0 ELSE r[1]

\* what validating store n alone may give with the same chain and registry,
\* a verification that ended when that of goroutine n did and the same
\* reading in checkConstraints
AloneResults(n) ==
    {validateAgainstStore(chain, stores[n], Certs, clock, ReadingOf(task[n].tCheck)) :
        clock \in Clocks(chain, stores[n], Certs, 1, ReadingOf(task[n].tVerify))}

\* C2: isolation: under every interleaving the TrustResult of store i equals
\* the result of validating store i alone with the same chain, registry and
\* validation time, whatever the other stores are and however they fare.
C2_Isolation ==
    Returned => \A n \in 1..Len(stores) : ret[1][n] \in AloneResults(n)

\* a store without resolvable roots next to a store that trusts the chain
C2_Witness ==
    /\ Returned
    /\ Len(stores) = 2
    /\ ret[1][1].FailureReason = <<"no valid root certificates in trust store">>
    /\ ret[1][2].Trusted
    /\ stores[1] # stores[2]

\* C3: join barrier: ValidateChain does not return before every goroutine it
\* started has finished; at the return each of the N slots has been written
\* and holds the completed result of its store.
C3_JoinBarrier ==
    (pc = "returned" /\ Len(stores) > 0) =>
        \A n \in 1..Len(stores) :
            /\ task[n].pc = "done"
            /\ Len(slotLog.writes[n]) = 1
            /\ ret[1][n] = task[slotLog.writes[n][1]].result

C3_Witness ==
    /\ pc = "returned"
    /\ Len(stores) = 2
    /\ \A n \in 1..2 : task[n].pc = "done" /\ ret[1][n] = task[n].result
    /\ ret[1][1] # ret[1][2]

\* C4: the goroutine of store i writes only slot i and writes it exactly
\* once, and no goroutine reads a slot: no two goroutines access the same
\* slot.
C4_OwnSlotOnly ==
    /\ slotLog.reads = {}
    /\ \A n \in DOMAIN slotLog.writes :
          /\ \A w \in 1..Len(slotLog.writes[n]) : slotLog.writes[n][w] = n
          /\ Len(slotLog.writes[n]) = IF n \in Assigned THEN 1 ELSE 0

\* both goroutines have written while the caller still waits
C4_Witness ==
    /\ pc = "wait"
    /\ Len(stores) = 2
    /\ task[1].pc = "assigned" /\ task[2].pc = "assigned"
    /\ slotLog.writes = <<<<1>>, <<2>>>>

(***************************************************************************)
(* Properties of validateAgainstStore and checkConstraints                 *)
(***************************************************************************)
\* the verification of store n succeeded
Verified(n) == task[n].chains # <<>>

\* the root that ends the first verified chain of store n
MatchedRoot(n) == task[n].chains[1][Len(task[n].chains[1])]

\* the constraints store n holds for its matched root
RootConstraints(n) == ConstraintFor(stores[n], Fp(MatchedRoot(n)))

Resolved(fp) == fp \in DOMAIN Certs

\* C5: if path verification succeeds against a store's resolved roots and
\* the matched root has no constraints in that store, the result is trusted,
\* has an empty FailureReason, and MatchedCA is the root's CommonName, else
\* its first Organization, else empty.
C5_TrustedUnconstrained ==
    Returned => \A n \in 1..Len(stores) :
        (Verified(n) /\ IsEmpty(RootConstraints(n))) =>
            LET r == ret[1][n]
                subject == MatchedRoot(n).Subject
            IN  /\ r.Trusted
                /\ r.FailureReason = <<>>
                /\ r.MatchedCA = IF subject.CommonName # "" THEN subject.CommonName
                                 ELSE IF subject.Organization # <<>>
                                      THEN subject.Organization[1]
                                 ELSE ""

\* a root without CommonName: the first of its two Organizations is shown
C5_Witness ==
    /\ Returned
    /\ Len(stores) = 1
    /\ Verified(1) /\ IsEmpty(RootConstraints(1))
    /\ MatchedRoot(1) = CertR2
    /\ ret[1][1].Trusted
    /\ ret[1][1].MatchedCA = "Org Two"

\* C6: if none of a store's fingerprints resolves to a certificate in the
\* registry, the result is untrusted with reason "no valid root certificates
\* in trust store" and path verification is not run for that store.
C6_NoResolvableRoots ==
    Returned => \A n \in 1..Len(stores) :
        (\A fp \in Range(stores[n].Fingerprints) : ~Resolved(fp)) =>
            /\ ~ret[1][n].Trusted
            /\ ret[1][n].FailureReason = <<"no valid root certificates in trust store">>
            /\ task[n].verifyCalls = 0

\* two fingerprints, neither in a registry that holds other certificates
C6_Witness ==
    /\ Returned
    /\ Len(stores) = 1
    /\ Len(stores[1].Fingerprints) = 2
    /\ \A fp \in Range(stores[1].Fingerprints) : ~Resolved(fp)
    /\ DOMAIN Certs # {}
    /\ ret[1][1].FailureReason = <<"no valid root certificates in trust store">>
    /\ task[1].verifyCalls = 0

\* the last supplied intermediate carries a fingerprint of store n that the
\* registry does not resolve, and no resolved root of the store anchors the chain
KnownMissingCase(n) ==
    /\ Len(chain.Intermediates) > 0
    /\ Fp(chain.Intermediates[Len(chain.Intermediates)]) \in Range(stores[n].Fingerprints)
    /\ ~Resolved(Fp(chain.Intermediates[Len(chain.Intermediates)]))
    /\ ~Verified(n)

KnownMissingResult(n) ==
    /\ ~ret[1][n].Trusted
    /\ ret[1][n].FailureReason =
          <<"chain roots at known CA (fingerprint %s) but certificate data unavailable",
            FpString(Fp(chain.Intermediates[Len(chain.Intermediates)]))>>

\* C7 as stated: a store whose only matching fingerprint is unresolved, the
\* last supplied intermediate carrying that fingerprint, yields the reason
\* "chain roots at known CA (fingerprint <FP>) but certificate data unavailable".
C7_AsStated ==
    Returned => \A n \in 1..Len(stores) : KnownMissingCase(n) => KnownMissingResult(n)

\* C7 amended: the same, provided at least one other fingerprint of the store
\* resolves to a certificate; a store with no resolvable root at all reports
\* "no valid root certificates in trust store" instead.
C7_KnownMissingRoot ==
    Returned => \A n \in 1..Len(stores) :
        (KnownMissingCase(n) /\ \E fp \in Range(stores[n].Fingerprints) : Resolved(fp))
            => KnownMissingResult(n)

\* the server sends the intermediate and the root; the root is in the store
\* but not in the registry, the store's other root is
C7_Witness ==
    /\ Returned
    /\ Len(stores) = 1
    /\ chain.ServerCert = LeafI1
    /\ chain.Intermediates = <<CertI1, CertR1>>
    /\ stores[1].Fingerprints = <<Fp(CertR1), Fp(CertR2)>>
    /\ ~Resolved(Fp(CertR1)) /\ Resolved(Fp(CertR2))
    /\ ret[1][1].FailureReason =
          <<"chain roots at known CA (fingerprint %s) but certificate data unavailable", "AB:01">>

\* the issuance cutoff of the matched root is violated by the leaf
CutoffViolated(n) ==
    /\ RootConstraints(n).NotBeforeMax # <<>>
    /\ chain.ServerCert.NotBefore > RootConstraints(n).NotBeforeMax[1]

\* the distrust date of the matched root lies before the validation time
DistrustPast(n) ==
    /\ RootConstraints(n).DistrustDate # <<>>
    /\ task[n].tCheck # <<>>
    /\ task[n].tCheck[1] > RootConstraints(n).DistrustDate[1]

CutoffMessage(n) ==
    <<"certificate issued after trust cutoff (%s > %s)",
      chain.ServerCert.NotBefore \div TicksPerDay,
      RootConstraints(n).NotBeforeMax[1] \div TicksPerDay>>

DistrustMessage(n) ==
    <<"CA distrusted since %s", RootConstraints(n).DistrustDate[1] \div TicksPerDay>>

\* C8 as stated: a store entry with a DistrustDate in the past relative to
\* validation time always yields Trusted=false with the message
\* "CA distrusted since <date>", for an otherwise valid chain.
C8_AsStated ==
    Returned => \A n \in 1..Len(stores) :
        (Verified(n) /\ DistrustPast(n)) =>
            /\ ~ret[1][n].Trusted
            /\ ret[1][n].FailureReason = DistrustMessage(n)

\* C8 amended: such an entry always yields Trusted=false; the reason is the
\* distrust message unless the same entry's NotBeforeMax is violated by the
\* leaf, in which case the reason is the issuance-cutoff message.
C8_DistrustDate ==
    Returned => \A n \in 1..Len(stores) :
        (Verified(n) /\ DistrustPast(n)) =>
            /\ ~ret[1][n].Trusted
            /\ ret[1][n].FailureReason =
                  IF CutoffViolated(n) THEN CutoffMessage(n) ELSE DistrustMessage(n)

\* only a distrust date, passed at validation time, on a valid chain
C8_Witness ==
    /\ Returned
    /\ Len(stores) = 1
    /\ Verified(1) /\ DistrustPast(1)
    /\ RootConstraints(1).NotBeforeMax = <<>>
    /\ RootConstraints(1).SCTNotAfter = <<>>
    /\ ~ret[1][1].Trusted
    /\ ret[1][1].FailureReason[1] = "CA distrusted since %s"

SCTDeadline(n) == RootConstraints(n).SCTNotAfter[1]

AllSCTsAfter(n) ==
    \A k \in 1..Len(chain.SCTs) : chain.SCTs[k].Timestamp > SCTDeadline(n)

NoneFoundMessage(n) ==
    <<"SCT required but none found (deadline: %s)", SCTDeadline(n) \div TicksPerDay>>

AllAfterMessage(n) ==
    <<"all SCTs issued after deadline (%s)", SCTDeadline(n) \div TicksPerDay>>

\* C9 as stated: with SCTNotAfter set on the matched root, a chain without
\* SCTs is untrusted with a "none found" reason; a chain with SCTs is
\* untrusted with "all SCTs issued after deadline" iff every SCT is after the
\* deadline; one SCT at or before the deadline is enough to pass.
C9_AsStated ==
    Returned => \A n \in 1..Len(stores) :
        (Verified(n) /\ RootConstraints(n).SCTNotAfter # <<>>) =>
            LET r == ret[1][n]
            IN  /\ Len(chain.SCTs) = 0 =>
                      (~r.Trusted /\ r.FailureReason = NoneFoundMessage(n))
                /\ Len(chain.SCTs) > 0 =>
                      ((~r.Trusted /\ r.FailureReason = AllAfterMessage(n)) <=> AllSCTsAfter(n))
                /\ ~AllSCTsAfter(n) =>
                      r.FailureReason \notin {NoneFoundMessage(n), AllAfterMessage(n)}

\* C9 amended: the same, provided the matched root's NotBeforeMax and
\* DistrustDate are each absent or satisfied (they are examined first); then
\* one SCT at or before the deadline, whatever its source and position,
\* makes the store trusted.
C9_SCTNotAfter ==
    Returned => \A n \in 1..Len(stores) :
        (/\ Verified(n) /\ RootConstraints(n).SCTNotAfter # <<>>
         /\ ~CutoffViolated(n) /\ ~DistrustPast(n)) =>
            LET r == ret[1][n]
            IN  /\ Len(chain.SCTs) = 0 =>
                      (~r.Trusted /\ r.FailureReason = NoneFoundMessage(n))
                /\ Len(chain.SCTs) > 0 =>
                      ((~r.Trusted /\ r.FailureReason = AllAfterMessage(n)) <=> AllSCTsAfter(n))
                /\ ~AllSCTsAfter(n) => (r.Trusted /\ r.FailureReason = <<>>)

\* a late SCT from the TLS extension first, an embedded SCT at the deadline second
C9_Witness ==
    /\ Returned
    /\ Len(stores) = 1
    /\ Verified(1) /\ RootConstraints(1).SCTNotAfter # <<>>
    /\ ~CutoffViolated(1) /\ ~DistrustPast(1)
    /\ Len(chain.SCTs) = 2
    /\ chain.SCTs[1].Source = SCTSourceTLS /\ chain.SCTs[1].Timestamp > SCTDeadline(1)
    /\ chain.SCTs[2].Source = SCTSourceEmbedded /\ chain.SCTs[2].Timestamp = SCTDeadline(1)
    /\ ret[1][1].Trusted

SCTViolated(n) == RootConstraints(n).SCTNotAfter # <<>> /\ AllSCTsAfter(n)

\* C10: when several constraints of the matched root are violated at once,
\* the reported reason is that of the first violated one in the order
\* NotBeforeMax, DistrustDate, SCTNotAfter; a later violation is reported
\* only if all earlier constraints are absent or satisfied.
C10_FirstViolationInOrder ==
    Returned => \A n \in 1..Len(stores) :
        Verified(n) =>
            LET reason == ret[1][n].FailureReason
            IN  /\ CutoffViolated(n) => reason = CutoffMessage(n)
                /\ (~CutoffViolated(n) /\ DistrustPast(n)) => reason = DistrustMessage(n)
                /\ (~CutoffViolated(n) /\ ~DistrustPast(n) /\ SCTViolated(n))
                      => reason \in {NoneFoundMessage(n), AllAfterMessage(n)}
                /\ (RootConstraints(n).DistrustDate # <<>> /\ reason = DistrustMessage(n))
                      => ~CutoffViolated(n)
                /\ (RootConstraints(n).SCTNotAfter # <<>>
                    /\ reason \in {NoneFoundMessage(n), AllAfterMessage(n)})
                      => (~CutoffViolated(n) /\ ~DistrustPast(n))

\* all three constraints violated at once: the cutoff is the one reported
C10_Witness ==
    /\ Returned
    /\ Len(stores) = 1
    /\ Verified(1)
    /\ CutoffViolated(1) /\ DistrustPast(1) /\ SCTViolated(1)
    /\ Len(chain.SCTs) > 0
    /\ ret[1][1].FailureReason[1] = "certificate issued after trust cutoff (%s > %s)"

\* the constraints of the matched root that are set are all met with equality
\* or earlier: nothing is strictly after its bound
NothingStrictlyAfter(n) ==
    LET c == RootConstraints(n)
    IN  /\ c.NotBeforeMax # <<>> => chain.ServerCert.NotBefore <= c.NotBeforeMax[1]
        /\ c.DistrustDate # <<>> => task[n].tCheck[1] <= c.DistrustDate[1]
        /\ c.SCTNotAfter # <<>> =>
              \E k \in 1..Len(chain.SCTs) : chain.SCTs[k].Timestamp <= c.SCTNotAfter[1]

\* C11: the constraint comparisons are strict.  A leaf whose NotBefore equals
\* NotBeforeMax, a validation time equal to DistrustDate and an SCT whose
\* timestamp equals SCTNotAfter do not violate the constraint; a constraint is
\* reported as violated only when the value is strictly after its bound.
C11_StrictComparisons ==
    Returned => \A n \in 1..Len(stores) :
        (Verified(n) /\ ~IsEmpty(RootConstraints(n))) =>
            LET c == RootConstraints(n)
                r == ret[1][n]
                t == task[n].tCheck[1]
            IN  /\ (c.NotBeforeMax # <<>> /\ chain.ServerCert.NotBefore = c.NotBeforeMax[1])
                      => r.FailureReason # CutoffMessage(n)
                /\ (c.DistrustDate # <<>> /\ t = c.DistrustDate[1])
                      => r.FailureReason # DistrustMessage(n)
                /\ (c.SCTNotAfter # <<>>
                    /\ \E k \in 1..Len(chain.SCTs) : chain.SCTs[k].Timestamp = c.SCTNotAfter[1])
                      => r.FailureReason \notin {NoneFoundMessage(n), AllAfterMessage(n)}
                /\ (c.NotBeforeMax # <<>> /\ r.FailureReason = CutoffMessage(n))
                      => chain.ServerCert.NotBefore > c.NotBeforeMax[1]
                /\ (c.DistrustDate # <<>> /\ r.FailureReason = DistrustMessage(n))
                      => t > c.DistrustDate[1]
                /\ (c.SCTNotAfter # <<>> /\ r.FailureReason = AllAfterMessage(n))
                      => \A k \in 1..Len(chain.SCTs) : chain.SCTs[k].Timestamp > c.SCTNotAfter[1]
                /\ NothingStrictlyAfter(n) => (r.Trusted /\ r.FailureReason = <<>>)

\* all three constraints set and each met with equality: the store is trusted
C11_Witness ==
    /\ Returned
    /\ Len(stores) = 1
    /\ Verified(1)
    /\ RootConstraints(1).NotBeforeMax = <<chain.ServerCert.NotBefore>>
    /\ RootConstraints(1).DistrustDate = task[1].tCheck
    /\ RootConstraints(1).SCTNotAfter # <<>>
    /\ Len(chain.SCTs) = 1
    /\ chain.SCTs[1].Timestamp = RootConstraints(1).SCTNotAfter[1]
    /\ ret[1][1].Trusted

(***************************************************************************)
(* internal/version: Compare.  A string is the sequence of its bytes.      *)
(***************************************************************************)
MaxComponents == 4

\* const Current = "current"
Current == <<99, 117, 114, 114, 101, 110, 116>>

IsDigit(b) == b \in 48..57

\* the parts of s between its dots (byte 46)
RECURSIVE SplitDots(_)
SplitDots(s) ==
    IF \A k \in 1..Len(s) : s[k] # 46 THEN <<s>>
    ELSE LET k == CHOOSE k \in 1..Len(s) : s[k] = 46 /\ \A j \in 1..(k - 1) : s[j] # 46
         IN  <<SubSeq(s, 1, k - 1)>> \o SplitDots(SubSeq(s, k + 1, Len(s)))

IsNumber(p) == p # <<>> /\ \A k \in 1..Len(p) : IsDigit(p[k])

\* a < b on Go strings: bytewise lexicographic
RECURSIVE StringLess(_, _)
StringLess(a, b) ==
    IF b = <<>> THEN FALSE
    ELSE IF a = <<>> THEN TRUE
    ELSE IF a[1] # b[1] THEN a[1] < b[1]
    ELSE StringLess(Tail(a), Tail(b))

\* a string of digits without its leading zeros; "0" for zero
RECURSIVE StripZeros(_)
StripZeros(p) == IF Len(p) > 1 /\ p[1] = 48 THEN StripZeros(Tail(p)) ELSE p

\* 1<<64 - 1 in decimal: 18446744073709551615
MaxUint64 == <<49, 56, 52, 52, 54, 55, 52, 52, 48, 55, 51, 55, 48, 57, 53, 53, 49, 54, 49, 53>>

\* m < n on unsigned numbers held as their decimal digits
UintLess(m, n) == Len(m) < Len(n) \/ (Len(m) = Len(n) /\ StringLess(m, n))

\* strconv.ParseUint(s, 10, 64): <<>> is the error (s is not a string of
\* digits, or the number does not fit 64 bits), else <<n>> with the number
\* n held as its decimal digits
ParseUint(s) ==
    IF ~IsNumber(s) \/ UintLess(MaxUint64, StripZeros(s)) THEN <<>> ELSE <<StripZeros(s)>>

\* [0-9A-Za-z-]
IsAllowed(b) == b \in (48..57) \cup (65..90) \cup (97..122) \cup {45}

\* [0-9A-Za-z-]+(\.[0-9A-Za-z-]+)*
IsSegments(s) ==
    \A k \in 1..Len(SplitDots(s)) :
        SplitDots(s)[k] # <<>> /\ \A j \in 1..Len(SplitDots(s)[k]) : IsAllowed(SplitDots(s)[k][j])

\* the first position of s that holds a byte of set, Len(s) + 1 if none does
IndexAny(s, set) ==
    LET at == {k \in 1..Len(s) : s[k] \in set}
    IN  IF at = {} THEN Len(s) + 1 ELSE CHOOSE k \in at : \A j \in at : k <= j

\* validatePrerelease: a segment of digits only must not start with a zero
\* unless it is "0"
validatePrerelease(pre) ==
    \A k \in 1..Len(SplitDots(pre)) :
        IsNumber(SplitDots(pre)[k]) => (Len(SplitDots(pre)[k]) = 1 \/ SplitDots(pre)[k][1] # 48)

\* semver.NewVersion: an optional "v", one to three numbers separated by
\* dots, an optional pre-release after '-' and optional metadata after '+';
\* absent minor and patch are 0.  <<>> is the error, <<v>> the version.
NewVersion(s) ==
    LET body == IF s # <<>> /\ s[1] = 118 THEN Tail(s) ELSE s
        cut == IndexAny(body, {45, 43})
        core == SplitDots(SubSeq(body, 1, cut - 1))
        rest == SubSeq(body, cut, Len(body))
        hasPre == rest # <<>> /\ rest[1] = 45
        plus == IndexAny(rest, {43})
        hasMeta == plus <= Len(rest)
        pre == IF hasPre THEN SubSeq(rest, 2, plus - 1) ELSE <<>>
        meta == SubSeq(rest, plus + 1, Len(rest))
        part(k) == IF k <= Len(core) THEN ParseUint(core[k])[1] ELSE <<48>>
    IN  IF /\ Len(core) \in 1..3
           /\ \A k \in 1..Len(core) : ParseUint(core[k]) # <<>>
           /\ hasPre => (IsSegments(pre) /\ validatePrerelease(pre))
           /\ hasMeta => IsSegments(meta)
        THEN <<[Major |-> part(1), Minor |-> part(2), Patch |-> part(3),
                Pre |-> pre, Metadata |-> meta]>>
        ELSE <<>>

\* compareSegment on two numbers
compareSegment(m, n) == IF UintLess(m, n) THEN -1 ELSE IF UintLess(n, m) THEN 1 ELSE 0

\* comparePrePart: one segment of a pre-release against one of another, an
\* absent segment is <<>>; a number is less than a text, numbers compare as
\* numbers, texts as strings
comparePrePart(p, q) ==
    IF p = q THEN 0
    ELSE IF p = <<>> THEN -1
    ELSE IF q = <<>> THEN 1
    ELSE IF ParseUint(p) = <<>> /\ ParseUint(q) = <<>>
    THEN (IF StringLess(q, p) THEN 1 ELSE -1)
    ELSE IF ParseUint(q) = <<>> THEN -1
    ELSE IF ParseUint(p) = <<>> THEN 1
    ELSE IF UintLess(ParseUint(q)[1], ParseUint(p)[1]) THEN 1 ELSE -1

\* comparePrerelease: the first pair of segments that differs decides
comparePrerelease(v, w) ==
    LET ps == SplitDots(v)
        qs == SplitDots(w)
        l == IF Len(ps) > Len(qs) THEN Len(ps) ELSE Len(qs)
        seg(parts, k) == IF k <= Len(parts) THEN parts[k] ELSE <<>>
        differ == {k \in 1..l : comparePrePart(seg(ps, k), seg(qs, k)) # 0}
        first == CHOOSE k \in differ : \A j \in differ : k <= j
    IN  IF differ = {} THEN 0 ELSE comparePrePart(seg(ps, first), seg(qs, first))

\* (*semver.Version).Compare: major, minor, patch, then the pre-release, a
\* version without one being the greater; metadata is not compared
SemverCompare(v, w) ==
    IF compareSegment(v.Major, w.Major) # 0 THEN compareSegment(v.Major, w.Major)
    ELSE IF compareSegment(v.Minor, w.Minor) # 0 THEN compareSegment(v.Minor, w.Minor)
    ELSE IF compareSegment(v.Patch, w.Patch) # 0 THEN compareSegment(v.Patch, w.Patch)
    ELSE IF v.Pre = <<>> /\ w.Pre = <<>> THEN 0
    ELSE IF v.Pre = <<>> THEN 1
    ELSE IF w.Pre = <<>> THEN -1
    ELSE comparePrerelease(v.Pre, w.Pre)

\* Compare with "current" ranked by the string fallback like any other text
CompareCurrentAsText(a, b) ==
    LET va == NewVersion(a)
        vb == NewVersion(b)
    IN  IF va # <<>> /\ vb # <<>> THEN SemverCompare(va[1], vb[1])
        ELSE IF va # <<>> THEN -1
        ELSE IF vb # <<>> THEN 1
        ELSE IF StringLess(a, b) THEN -1
        ELSE IF StringLess(b, a) THEN 1
        ELSE 0

\* Compare with "-1" returned whenever exactly one of the strings parses
CompareOneSided(a, b) ==
    LET va == NewVersion(a)
        vb == NewVersion(b)
    IN  IF a = Current /\ b = Current THEN 0
        ELSE IF a = Current THEN 1
        ELSE IF b = Current THEN -1
        ELSE IF va # <<>> /\ vb # <<>> THEN SemverCompare(va[1], vb[1])
        ELSE IF va # <<>> \/ vb # <<>> THEN -1
        ELSE IF StringLess(a, b) THEN -1
        ELSE IF StringLess(b, a) THEN 1
        ELSE 0

\* version.Compare
Compare(a, b) ==
    LET va == NewVersion(a)
        vb == NewVersion(b)
    IN  IF a = Current /\ b = Current THEN 0
        ELSE IF a = Current THEN 1
        ELSE IF b = Current THEN -1
        ELSE IF va # <<>> /\ vb # <<>> THEN SemverCompare(va[1], vb[1])
        ELSE IF va # <<>> THEN -1
        ELSE IF vb # <<>> THEN 1
        ELSE IF StringLess(a, b) THEN -1
        ELSE IF StringLess(b, a) THEN 1
        ELSE 0

LessThan(a, b) == Compare(a, b) < 0

GreaterOrEqual(a, b) == Compare(a, b) >= 0

CompareAsc(a, b) == LessThan(a, b)

\* the components "0", "2" and "10": 2 < 10 as numbers, "10" < "2" as strings
ComponentTexts == {<<48>>, <<50>>, <<49, 48>>}

RECURSIVE JoinDots(_)
JoinDots(parts) ==
    IF Len(parts) = 1 THEN parts[1] ELSE parts[1] \o <<46>> \o JoinDots(Tail(parts))

\* the dotted-numeric strings of one to n components
DottedNumeric(texts, n) == {JoinDots(parts) : parts \in SeqsUpTo(texts, n) \ {<<>>}}

\* "a", "z", "2a", "v2", "2." and ".2"
OtherTexts == {<<97>>, <<122>>, <<50, 97>>, <<118, 50>>, <<50, 46>>, <<46, 50>>}

\* versions with a pre-release or metadata: "2-rc", "2-1", "2-10", "2+b",
\* "2-rc.1", "2-rc+b", and the ill-formed "2-01" and "2-"
PreTexts ==
    {<<50, 45, 114, 99>>, <<50, 45, 49>>, <<50, 45, 49, 48>>, <<50, 43, 98>>,
     <<50, 45, 114, 99, 46, 49>>, <<50, 45, 114, 99, 43, 98>>, <<50, 45, 48, 49>>, <<50, 45>>}

\* 1<<64 - 1 and 1<<64
WideTexts == {MaxUint64, SubSeq(MaxUint64, 1, 19) \o <<54>>}

VersionStrings ==
    DottedNumeric(ComponentTexts, MaxComponents) \cup {Current} \cup OtherTexts
        \cup PreTexts \cup WideTexts

\* ValidateChain is not running
InitIdle ==
    /\ chain = MkChain(LeafR1, <<>>, <<>>)
    /\ stores = <<>>
    /\ Certs = RegistryOf({})
    /\ now = 1
    /\ pc = "start"
    /\ loopI = 0
    /\ wg = 0
    /\ results = <<>>
    /\ ret = <<>>
    /\ task = <<>>
    /\ slotLog = [writes |-> <<>>, reads |-> {}, overtaken |-> FALSE]

\* one call of Compare
CallCompare ==
    /\ call # <<>> /\ call.fn = "Compare"
    /\ reply = <<>>
    /\ reply' = <<Compare(call.a, call.b)>>
    /\ UNCHANGED <<call, validation>>

InitCompare ==
    /\ InitIdle
    /\ call \in {[fn |-> "Compare", a |-> a, b |-> b] : a, b \in VersionStrings}
    /\ reply = <<>>

SpecCompare == InitCompare /\ [][CallCompare]_vars

(***************************************************************************)
(* Properties of version.Compare                                           *)
(***************************************************************************)
\* a dotted-numeric string: numbers separated by single dots
IsDottedNumeric(s) == \A k \in 1..Len(SplitDots(s)) : IsNumber(SplitDots(s)[k])

\* the k-th component of a dotted-numeric string, 0 when it is missing; a
\* number is held as its decimal digits without leading zeros
Component(s, k) == IF k <= Len(SplitDots(s)) THEN StripZeros(SplitDots(s)[k]) ELSE <<48>>

\* component-wise numeric comparison, missing components read as 0
NumericOrder(a, b) ==
    LET n == IF Len(SplitDots(a)) > Len(SplitDots(b)) THEN Len(SplitDots(a)) ELSE Len(SplitDots(b))
        differ == {k \in 1..n : Component(a, k) # Component(b, k)}
        first == CHOOSE k \in differ : \A j \in differ : k <= j
    IN  IF differ = {} THEN 0
        ELSE IF UintLess(Component(a, first), Component(b, first)) THEN -1 ELSE 1

LexicographicOrder(a, b) == IF StringLess(a, b) THEN -1 ELSE IF StringLess(b, a) THEN 1 ELSE 0

\* the result the rules of Compare give when numeric(s) tells which strings
\* parse as numbers
ExpectedCompare(a, b, numeric(_)) ==
    IF a = Current /\ b = Current THEN 0
    ELSE IF a = Current THEN 1
    ELSE IF b = Current THEN -1
    ELSE IF numeric(a) /\ numeric(b) THEN NumericOrder(a, b)
    ELSE IF numeric(a) THEN -1
    ELSE IF numeric(b) THEN 1
    ELSE LexicographicOrder(a, b)

\* C17 as stated: "current" is greater than every other version and equal
\* only to itself; two dotted-numeric versions compare component-wise
\* numerically with missing components read as 0; when exactly one string
\* fails numeric parsing the parseable one is less; when neither parses the
\* result is the lexicographic comparison of the strings.
C17_AsStated ==
    reply # <<>> /\ call.fn = "Compare" =>
        reply[1] = ExpectedCompare(call.a, call.b, IsDottedNumeric)

\* s without a leading "v"
Unprefixed(s) == IF s # <<>> /\ s[1] = 118 THEN Tail(s) ELSE s

\* the dotted numbers of a version: what stands before the first '-' or '+'
CoreOf(s) == SubSeq(Unprefixed(s), 1, IndexAny(Unprefixed(s), {45, 43}) - 1)

\* what follows the dotted numbers
SuffixOf(s) == SubSeq(Unprefixed(s), IndexAny(Unprefixed(s), {45, 43}), Len(Unprefixed(s)))

\* the pre-release of a version: what stands between a '-' right after the
\* dotted numbers and the first '+'; <<>> if there is none
PreOf(s) ==
    IF SuffixOf(s) # <<>> /\ SuffixOf(s)[1] = 45
    THEN SubSeq(SuffixOf(s), 2, IndexAny(SuffixOf(s), {43}) - 1)
    ELSE <<>>

\* the metadata of a version: what follows the first '+'
MetaOf(s) == SubSeq(SuffixOf(s), IndexAny(SuffixOf(s), {43}) + 1, Len(SuffixOf(s)))

\* what semver.NewVersion parses: after an optional "v", one to three
\* numbers of at most 64 bits, then optionally '-' and a pre-release, then
\* optionally '+' and metadata, both dot-separated runs of letters, digits
\* and '-', a numeric run of the pre-release without leading zero
ParsesAsSemver(s) ==
    /\ IsDottedNumeric(CoreOf(s)) /\ Len(SplitDots(CoreOf(s))) <= 3
    /\ \A k \in 1..Len(SplitDots(CoreOf(s))) : ~UintLess(MaxUint64, Component(CoreOf(s), k))
    /\ (SuffixOf(s) # <<>> /\ SuffixOf(s)[1] = 45)
          => (IsSegments(PreOf(s)) /\ validatePrerelease(PreOf(s)))
    /\ IndexAny(SuffixOf(s), {43}) <= Len(SuffixOf(s)) => IsSegments(MetaOf(s))

\* the order of two versions whose numbers are equal: one without a
\* pre-release is the greater, two pre-releases compare run by run
PreReleaseOrder(a, b) ==
    IF PreOf(a) = <<>> /\ PreOf(b) = <<>> THEN 0
    ELSE IF PreOf(a) = <<>> THEN 1
    ELSE IF PreOf(b) = <<>> THEN -1
    ELSE comparePrerelease(PreOf(a), PreOf(b))

\* C17 amended: the same rules, where the strings that parse numerically are
\* those semver.NewVersion accepts: one to three dotted numbers of at most
\* 64 bits, optionally preceded by "v" and followed by a pre-release and
\* metadata.  Two of them compare by their numbers, then by their
\* pre-releases; metadata is not compared.  A dotted-numeric string of four
\* or more components does not parse and is ranked as an unparseable
\* string.
C17_Compare ==
    reply # <<>> /\ call.fn = "Compare" =>
        reply[1] =
          IF call.a # Current /\ call.b # Current
                /\ ParsesAsSemver(call.a) /\ ParsesAsSemver(call.b)
          THEN IF NumericOrder(CoreOf(call.a), CoreOf(call.b)) # 0
               THEN NumericOrder(CoreOf(call.a), CoreOf(call.b))
               ELSE PreReleaseOrder(call.a, call.b)
          ELSE ExpectedCompare(call.a, call.b, ParsesAsSemver)

\* "2.10" against "2.2": greater as numbers, less as strings
C17_Witness ==
    /\ reply = <<1>>
    /\ call.fn = "Compare"
    /\ call.a = <<50, 46, 49, 48>>
    /\ call.b = <<50, 46, 50>>

\* the components "2" and "10"
OrderTexts == {<<50>>, <<49, 48>>}

\* "2-rc", "2-1" and "2+b"
OrderPreTexts == {<<50, 45, 114, 99>>, <<50, 45, 49>>, <<50, 43, 98>>}

OrderStrings ==
    DottedNumeric(OrderTexts, MaxComponents) \cup {Current} \cup OtherTexts \cup OrderPreTexts

\* Compare and CompareAsc applied to every pair out of three version strings,
\* as a sort of the three does (sort.Slice with CompareAsc as less)
CallCompareAll ==
    /\ call # <<>> /\ call.fn = "CompareAll"
    /\ reply = <<>>
    /\ reply' = <<[cmp |-> [x \in 1..3 |-> [y \in 1..3 |-> Compare(call.vs[x], call.vs[y])]],
                   asc |-> [x \in 1..3 |-> [y \in 1..3 |-> CompareAsc(call.vs[x], call.vs[y])]]]>>
    /\ UNCHANGED <<call, validation>>

InitOrder ==
    /\ InitIdle
    /\ call \in {[fn |-> "CompareAll", vs |-> <<a, b, c>>] : a, b, c \in OrderStrings}
    /\ reply = <<>>

SpecOrder == InitOrder /\ [][CallCompareAll]_vars

\* C18: Compare is a total ordering over all version strings (dotted-numeric,
\* "current", unparseable): Compare(a,a) = 0, Compare(a,b) = -Compare(b,a),
\* and Compare(a,b) <= 0 with Compare(b,c) <= 0 implies Compare(a,c) <= 0.
\* CompareAsc is then a strict less-than fit for sorting (irreflexive,
\* asymmetric, transitive, "neither is less" transitive) and a numeric
\* version is always less than "current", never the reverse.
C18_TotalOrdering ==
    reply # <<>> /\ call.fn = "CompareAll" =>
        LET cmp == reply[1].cmp
            asc == reply[1].asc
            I == 1..3
        IN  /\ \A x \in I : cmp[x][x] = 0
            /\ \A x, y \in I : cmp[x][y] \in {-1, 0, 1} /\ cmp[x][y] = 0 - cmp[y][x]
            /\ \A x, y, z \in I : (cmp[x][y] <= 0 /\ cmp[y][z] <= 0) => cmp[x][z] <= 0
            /\ \A x, y \in I : asc[x][y] <=> cmp[x][y] < 0
            /\ \A x \in I : ~asc[x][x]
            /\ \A x, y \in I : asc[x][y] => ~asc[y][x]
            /\ \A x, y, z \in I : (asc[x][y] /\ asc[y][z]) => asc[x][z]
            /\ \A x, y, z \in I :
                  (~asc[x][y] /\ ~asc[y][x] /\ ~asc[y][z] /\ ~asc[z][y])
                      => (~asc[x][z] /\ ~asc[z][x])
            /\ \A x, y \in I :
                  (call.vs[y] = Current /\ call.vs[x] # Current) => (asc[x][y] /\ ~asc[y][x])

\* a numeric version, an unparseable string and "current", in ascending order
C18_Witness ==
    /\ reply # <<>>
    /\ call.fn = "CompareAll"
    /\ call.vs = <<<<50, 46, 49, 48>>, <<50, 97>>, Current>>
    /\ reply[1].asc[1][2] /\ reply[1].asc[2][3] /\ reply[1].asc[1][3]
    /\ reply[1].cmp[3][1] = 1

(***************************************************************************)
(* internal/filter: the parsed filter and its matching                     *)
(***************************************************************************)
MaxConstraints == 2

PlatformChrome == <<99, 104, 114, 111, 109, 101>>

OpEqual == "="
OpGreater == ">"
OpLess == "<"
OpGreaterEqual == ">="
OpLessEqual == "<="

\* the keys of the operatorStrategies map
operatorStrategies == {OpEqual, OpGreater, OpLess, OpGreaterEqual, OpLessEqual}

\* Constraint{}: the zero value
ZeroConstraint == [Platform |-> <<>>, Operator |-> "", Version |-> <<>>, IsCurrent |-> FALSE]

\* unicode.ToLower on one byte of a string: the ASCII capitals move down,
\* every other byte of the platform tokens the lexer lets through stays
LowerByte(b) == IF b \in 65..90 THEN b + 32 ELSE b

\* strings.ToLower
ToLower(s) == [k \in 1..Len(s) |-> LowerByte(s[k])]

\* convertConstraint: c is a constraintExpr, absent Operator and Version are
\* empty strings
convertConstraint(c) ==
    LET p == ToLower(c.Platform)
        ver == NewVersion(c.Version)
    IN  IF c.Operator = "" /\ c.Version = <<>>
        THEN [Constraint |-> [Platform |-> p, Operator |-> OpGreaterEqual,
                              Version |-> <<>>, IsCurrent |-> FALSE],
              Err |-> <<>>]
        ELSE IF c.Operator = ""
        THEN [Constraint |-> ZeroConstraint, Err |-> <<"missing operator for %s", c.Platform>>]
        ELSE IF c.Version = <<>>
        THEN [Constraint |-> ZeroConstraint,
              Err |-> <<"missing version for %s%s", c.Platform, c.Operator>>]
        ELSE IF c.Version = Current
        THEN [Constraint |-> [Platform |-> p, Operator |-> c.Operator,
                              Version |-> <<>>, IsCurrent |-> TRUE],
              Err |-> <<>>]
        ELSE IF ver = <<>>
        THEN [Constraint |-> ZeroConstraint, Err |-> <<"invalid version %q: %w", c.Version>>]
        ELSE [Constraint |-> [Platform |-> p, Operator |-> c.Operator,
                              Version |-> ver, IsCurrent |-> FALSE],
              Err |-> <<>>]

\* Parse from the AST on: ast is the list of constraintExpr the grammar
\* produced (at least one).  The filter is <<>> (nil) with the first error,
\* <<f>> otherwise.
Parse(ast) ==
    LET conv == [k \in 1..Len(ast) |-> convertConstraint(ast[k])]
        bad == {k \in 1..Len(ast) : conv[k].Err # <<>>}
    IN  IF bad # {}
        THEN [Filter |-> <<>>, Err |-> conv[CHOOSE k \in bad : \A j \in bad : k <= j].Err]
        ELSE [Filter |-> <<[Constraints |-> [k \in 1..Len(ast) |-> conv[k].Constraint]]>>,
              Err |-> <<>>]

\* MatchCurrentConstraint with the test version left out of account
MatchCurrentConstraintAnyTest(op, testIsCurrent) ==
    CASE op = OpEqual -> TRUE
      [] op = OpGreater -> FALSE
      [] op = OpLess -> TRUE
      [] op = OpGreaterEqual -> TRUE
      [] op = OpLessEqual -> TRUE

\* the constraint's version is "current"
MatchCurrentConstraint(op, testIsCurrent) ==
    CASE op = OpEqual -> testIsCurrent
      [] op = OpGreater -> FALSE
      [] op = OpLess -> ~testIsCurrent
      [] op = OpGreaterEqual -> testIsCurrent
      [] op = OpLessEqual -> TRUE

\* MatchCurrentVersion with "current" taken for a version that is not a number
MatchCurrentVersionAsInvalid(op) == FALSE

\* the test version is "current", the constraint's version is a number
MatchCurrentVersion(op) ==
    CASE op = OpEqual -> FALSE
      [] op = OpGreater -> TRUE
      [] op = OpLess -> FALSE
      [] op = OpGreaterEqual -> TRUE
      [] op = OpLessEqual -> FALSE

\* MatchSemver with >= and <= taken for > and <
MatchSemverStrict(op, cmp) ==
    CASE op = OpEqual -> cmp = 0
      [] op = OpGreater -> cmp > 0
      [] op = OpLess -> cmp < 0
      [] op = OpGreaterEqual -> cmp > 0
      [] op = OpLessEqual -> cmp < 0

\* both versions are numbers; cmp is the test version compared with the
\* constraint's
MatchSemver(op, cmp) ==
    CASE op = OpEqual -> cmp = 0
      [] op = OpGreater -> cmp > 0
      [] op = OpLess -> cmp < 0
      [] op = OpGreaterEqual -> cmp >= 0
      [] op = OpLessEqual -> cmp <= 0

matchConstraint(c, ver) ==
    LET v == NewVersion(ver)
    IN  IF c.Version = <<>> /\ ~c.IsCurrent THEN TRUE
        ELSE IF c.Operator \notin operatorStrategies THEN FALSE
        ELSE IF c.IsCurrent THEN MatchCurrentConstraint(c.Operator, ver = Current)
        ELSE IF ver = Current THEN MatchCurrentVersion(c.Operator)
        ELSE IF v = <<>> THEN FALSE
        ELSE MatchSemver(c.Operator, SemverCompare(v[1], c.Version[1]))

\* Match with every constraint of the filter evaluated, whatever its platform
MatchAcrossPlatforms(f, pv) ==
    \/ f = <<>>
    \/ \A k \in 1..Len(f[1].Constraints) : matchConstraint(f[1].Constraints[k], pv.Version)

\* (*Filter).Match; f is <<>> for the nil pointer, <<filter>> otherwise
Match(f, pv) ==
    IF f = <<>> \/ Len(f[1].Constraints) = 0 THEN TRUE
    ELSE LET cs == f[1].Constraints
             byPlatform == [p \in {cs[k].Platform : k \in 1..Len(cs)} |->
                               SelectSeq(cs, LAMBDA c : c.Platform = p)]
         IN  IF pv.Platform \notin DOMAIN byPlatform THEN FALSE
             ELSE \A k \in 1..Len(byPlatform[pv.Platform]) :
                      matchConstraint(byPlatform[pv.Platform][k], pv.Version)

\* FilterStores that stops at the first matching store
FilterStoresFirstMatch(sts, f) ==
    LET m == SelectSeq(sts, LAMBDA s : Match(f, [Platform |-> s.Platform, Version |-> s.Version]))
    IN  IF f = <<>> THEN sts
        ELSE IF m = <<>> THEN <<>> ELSE <<m[1]>>

FilterStores(sts, f) ==
    IF f = <<>> THEN sts
    ELSE SelectSeq(sts, LAMBDA s : Match(f, [Platform |-> s.Platform, Version |-> s.Version]))

\* the constraintExpr values the grammar "@Platform @Operator? @Version?" yields
\* from the given tokens
ConstraintExprs(platforms, operators, versions) ==
    [Platform : platforms, Operator : operators \cup {""}, Version : versions \cup {<<>>}]

\* the filters Parse returns for the given ASTs
ParsedFilters(asts) == {Parse(ast).Filter : ast \in asts} \ {<<>>}

\* the Version tokens of the lexer: \d+(\.\d+)* or "current"
VersionTokens == DottedNumeric(OrderTexts, MaxComponents) \cup {Current}

PlatformVersions(platforms, versions) == [Platform : platforms, Version : versions]

\* one call of Match
CallMatch ==
    /\ call # <<>> /\ call.fn = "Match"
    /\ reply = <<>>
    /\ reply' = <<Match(call.f, call.pv)>>
    /\ UNCHANGED <<call, validation>>

\* every filter of one constraint against every platform and version
InitMatch ==
    /\ InitIdle
    /\ \E f \in ParsedFilters({<<c>> : c \in ConstraintExprs({PlatformIOS, <<67, 104, 114, 111, 109, 101>>},
                                                operatorStrategies, VersionTokens)}),
          pv \in PlatformVersions({PlatformIOS, PlatformChrome, PlatformAndroid}, OrderStrings) :
          call = [fn |-> "Match", f |-> f, pv |-> pv]
    /\ reply = <<>>

SpecMatch == InitMatch /\ [][CallMatch]_vars

(***************************************************************************)
(* Properties of the filter                                                *)
(***************************************************************************)
\* Match was called with a filter of the single constraint "platform op N"
\* on the platform of the tested PlatformVersion
OneConstraint(op) ==
    /\ reply # <<>>
    /\ call.fn = "Match"
    /\ call.f # <<>>
    /\ Len(call.f[1].Constraints) = 1
    /\ call.f[1].Constraints[1].Platform = call.pv.Platform
    /\ call.f[1].Constraints[1].Operator = op
    /\ (call.f[1].Constraints[1].Version # <<>> \/ call.f[1].Constraints[1].IsCurrent)

\* N is the literal "current"
ConstraintIsCurrent == call.f[1].Constraints[1].IsCurrent

\* C12 as stated: platform>N matches a PlatformVersion of that platform whose
\* version is "current", for every constraint version N the grammar allows.
C12_AsStated ==
    (OneConstraint(OpGreater) /\ call.pv.Version = Current) => reply[1]

\* C12 amended: platform>N matches a "current" PlatformVersion of that
\* platform for every numeric N; for N = "current", which the grammar also
\* allows, it does not match.
C12_GreaterMatchesCurrent ==
    (OneConstraint(OpGreater) /\ call.pv.Version = Current) =>
        (reply[1] <=> ~ConstraintIsCurrent)

\* chrome>10 against chrome "current"
C12_Witness ==
    /\ OneConstraint(OpGreater)
    /\ call.pv = [Platform |-> PlatformChrome, Version |-> Current]
    /\ call.f[1].Constraints[1].Version = <<[Major |-> <<49, 48>>, Minor |-> <<48>>, Patch |-> <<48>>,
                                              Pre |-> <<>>, Metadata |-> <<>>]>>
    /\ reply = <<TRUE>>

\* C13: for a test version "current", platform=current matches and
\* platform=N with numeric N does not; platform<N never matches;
\* platform>=N always matches; platform<=N matches only if N is "current".
\* For a test version other than "current", platform=current does not match.
C13_CurrentTruthTable ==
    /\ (OneConstraint(OpEqual) /\ call.pv.Version = Current) =>
          (reply[1] <=> ConstraintIsCurrent)
    /\ (OneConstraint(OpLess) /\ call.pv.Version = Current) => ~reply[1]
    /\ (OneConstraint(OpGreaterEqual) /\ call.pv.Version = Current) => reply[1]
    /\ (OneConstraint(OpLessEqual) /\ call.pv.Version = Current) =>
          (reply[1] <=> ConstraintIsCurrent)
    /\ (OneConstraint(OpEqual) /\ call.pv.Version # Current /\ ConstraintIsCurrent) =>
          ~reply[1]

\* chrome<=current against chrome "current"
C13_Witness ==
    /\ OneConstraint(OpLessEqual)
    /\ ConstraintIsCurrent
    /\ call.pv = [Platform |-> PlatformChrome, Version |-> Current]
    /\ reply = <<TRUE>>

\* the version tokens "2", "10" and "current"
GroupVersions == OrderTexts \cup {Current}

\* the ASTs of one to n constraints over the given constraintExpr values
Asts(exprs, n) == SeqsUpTo(exprs, n) \ {<<>>}

\* the filters Parse returns for up to n constraints over the given tokens,
\* the nil filter and the filter without constraints (new(Filter))
GroupFilters(operators, n) ==
    ParsedFilters(Asts(ConstraintExprs({PlatformIOS, <<67, 104, 114, 111, 109, 101>>}, operators, GroupVersions), n))
        \cup {<<>>, <<[Constraints |-> <<>>]>>}

\* filters of several constraints, on one platform or on two
InitGroup ==
    /\ InitIdle
    /\ \E f \in GroupFilters(operatorStrategies, MaxConstraints),
          pv \in PlatformVersions({PlatformIOS, PlatformChrome, PlatformAndroid},
                                  GroupVersions \cup {<<97>>}) :
          call = [fn |-> "Match", f |-> f, pv |-> pv]
    /\ reply = <<>>

SpecGroup == InitGroup /\ [][CallMatch]_vars

\* the constraints of the filter in the call; none for the nil filter
CallConstraints == IF call.f = <<>> THEN <<>> ELSE call.f[1].Constraints

\* the constraints that name the platform of the tested PlatformVersion
Naming == {k \in 1..Len(CallConstraints) : CallConstraints[k].Platform = call.pv.Platform}

\* the constraint holds for the version: a bare platform holds for every
\* version, "platform op N" holds as matchConstraint decides
Holds(c, ver) == (c.Version = <<>> /\ ~c.IsCurrent) \/ matchConstraint(c, ver)

\* C14 as stated: Match(pv) is true if and only if pv's platform is named by
\* at least one constraint of the filter and every constraint naming it holds
\* for pv's version; a PlatformVersion whose platform is named nowhere in the
\* filter never matches.
C14_AsStated ==
    reply # <<>> /\ call.fn = "Match" =>
        (reply[1] <=> (/\ Naming # {}
                       /\ \A k \in Naming : Holds(CallConstraints[k], call.pv.Version)))

\* C14 amended: the same for a filter with at least one constraint (every
\* filter Parse returns); the nil filter and a filter without constraints
\* match every PlatformVersion.
C14_MatchGroups ==
    reply # <<>> /\ call.fn = "Match" =>
        IF Len(CallConstraints) = 0 THEN reply[1]
        ELSE reply[1] <=> (/\ Naming # {}
                           /\ \A k \in Naming : Holds(CallConstraints[k], call.pv.Version))

\* two constraints: the one on the tested platform carries a version and
\* holds, the one on the other platform would not hold and is not evaluated
C14_Witness ==
    /\ reply = <<TRUE>>
    /\ call.fn = "Match"
    /\ Len(CallConstraints) = 2
    /\ Naming = {1}
    /\ ~matchConstraint(CallConstraints[2], call.pv.Version)
    /\ CallConstraints[1].Version # <<>>

\* stores of three platforms; only the platform and the version matter here
FilterCatalog ==
    {MkStore([Platform |-> PlatformIOS, Version |-> <<50>>], <<>>, <<>>),
     MkStore([Platform |-> PlatformIOS, Version |-> <<49, 48>>], <<>>, <<>>),
     MkStore([Platform |-> PlatformChrome, Version |-> Current], <<>>, <<>>),
     MkStore([Platform |-> PlatformAndroid, Version |-> <<50>>], <<>>, <<>>)}

\* one call of FilterStores
CallFilterStores ==
    /\ call # <<>> /\ call.fn = "FilterStores"
    /\ reply = <<>>
    /\ reply' = <<FilterStores(call.stores, call.f)>>
    /\ UNCHANGED <<call, validation>>

InitFilterStores ==
    /\ InitIdle
    /\ \E sts \in NoDupSeqsUpTo(FilterCatalog, MaxStores + 1),
          f \in GroupFilters({OpGreaterEqual, OpLess}, MaxConstraints) :
          call = [fn |-> "FilterStores", stores |-> sts, f |-> f]
    /\ reply = <<>>

SpecFilterStores == InitFilterStores /\ [][CallFilterStores]_vars

\* the store at position k of the input matches the filter of the call
StoreMatches(k) ==
    Match(call.f, [Platform |-> call.stores[k].Platform, Version |-> call.stores[k].Version])

\* C15: FilterStores(stores, nil) returns the input list unchanged; with a
\* non-nil filter it returns exactly the stores whose (Platform, Version)
\* matches the filter, each once and in their input order.
C15_FilterStores ==
    reply # <<>> /\ call.fn = "FilterStores" =>
        IF call.f = <<>> THEN reply[1] = call.stores
        ELSE LET kept == {k \in 1..Len(call.stores) : StoreMatches(k)}
                 \* the position in the result of the store at input position k
                 pos(k) == Cardinality({j \in kept : j <= k})
             IN  /\ Len(reply[1]) = Cardinality(kept)
                 /\ \A k \in kept : reply[1][pos(k)] = call.stores[k]

\* three stores, the middle one does not match: the first and the third are
\* returned in that order
C15_Witness ==
    /\ reply # <<>>
    /\ call.fn = "FilterStores"
    /\ call.f # <<>>
    /\ Len(call.f[1].Constraints) = 2
    /\ Len(call.stores) = 3
    /\ StoreMatches(1) /\ ~StoreMatches(2) /\ StoreMatches(3)
    /\ reply[1] = <<call.stores[1], call.stores[3]>>

(***************************************************************************)
(* truststore/fingerprint.go: ParseFingerprint.  The input is the sequence *)
(* of its bytes: ':' is 58, '-' is 45, ' ' is 32, '0'..'9' are 48..57,     *)
(* 'A'..'F' are 65..70, 'a'..'f' are 97..102.                              *)
(***************************************************************************)
sha256Pairs == 32

\* the runes unicode.IsSpace accepts, each in UTF-8: \t \n \v \f \r ' ', U+0085,
\* U+00A0, U+1680, U+2000..U+200A, U+2028, U+2029, U+202F, U+205F, U+3000
SpaceRunes ==
    {<<b>> : b \in (9..13) \cup {32}}
        \cup {<<194, 133>>, <<194, 160>>, <<225, 154, 128>>}
        \cup {<<226, 128, b>> : b \in (128..138) \cup {168, 169, 175}}
        \cup {<<226, 129, 159>>, <<227, 128, 128>>}

\* strings.TrimLeftFunc(s, unicode.IsSpace): the white space runes s starts
\* with are dropped
RECURSIVE TrimLeft(_)
TrimLeft(s) ==
    LET heads == {r \in SpaceRunes : Len(r) <= Len(s) /\ SubSeq(s, 1, Len(r)) = r}
    IN  IF heads = {} THEN s
        ELSE TrimLeft(SubSeq(s, Len(CHOOSE r \in heads : TRUE) + 1, Len(s)))

\* strings.TrimRightFunc(s, unicode.IsSpace): the white space runes s ends
\* with are dropped
RECURSIVE TrimRight(_)
TrimRight(s) ==
    LET tails == {r \in SpaceRunes :
                     Len(r) <= Len(s) /\ SubSeq(s, Len(s) - Len(r) + 1, Len(s)) = r}
    IN  IF tails = {} THEN s
        ELSE TrimRight(SubSeq(s, 1, Len(s) - Len(CHOOSE r \in tails : TRUE)))

\* strings.TrimSpace
TrimSpace(s) == TrimRight(TrimLeft(s))

\* [0-9A-Fa-f]
IsHex(b) == b \in (48..57) \cup (65..70) \cup (97..102)

\* rawHexRe: exactly 2 * sha256Pairs hex characters
rawHexRe(s) == Len(s) = 2 * sha256Pairs /\ \A k \in 1..Len(s) : IsHex(s[k])

\* separatorRe with each separator free to be any of ':', '-' and ' '
separatorReAnyEach(s) ==
    /\ Len(s) = 3 * sha256Pairs - 1
    /\ \A k \in 1..Len(s) : IF k % 3 = 0 THEN s[k] \in {58, 45, 32} ELSE IsHex(s[k])

\* separatorRe: sha256Pairs hex pairs, the same separator between all of them
separatorRe(s) ==
    \E sep \in {58, 45, 32} :
        /\ Len(s) = 3 * sha256Pairs - 1
        /\ \A k \in 1..Len(s) : IF k % 3 = 0 THEN s[k] = sep ELSE IsHex(s[k])

\* separatedParser.ParseString on an input separatorRe accepted: the Pair
\* tokens in order
ParsePairs(s) == [k \in 1..((Len(s) + 1) \div 3) |-> <<s[3 * k - 2], s[3 * k - 1]>>]

\* strings.Join(pairs, "")
RECURSIVE JoinPairs(_)
JoinPairs(pairs) == IF pairs = <<>> THEN <<>> ELSE pairs[1] \o JoinPairs(Tail(pairs))

\* the value of a hex digit
HexValue(b) == IF b <= 57 THEN b - 48 ELSE IF b <= 70 THEN b - 55 ELSE b - 87

\* hex.DecodeString on a string of an even number of hex digits
DecodeString(h) == [k \in 1..(Len(h) \div 2) |-> 16 * HexValue(h[2 * k - 1]) + HexValue(h[2 * k])]

\* Fingerprint{}: the zero value
ZeroFingerprint == [k \in 1..sha256Pairs |-> 0]

ParseFingerprint(input) ==
    LET s == TrimSpace(input)
        pairs == ParsePairs(s)
    IN  IF s = <<>> THEN [Fingerprint |-> ZeroFingerprint, Err |-> <<"empty fingerprint">>]
        ELSE IF rawHexRe(s) THEN [Fingerprint |-> DecodeString(s), Err |-> <<>>]
        ELSE IF ~separatorRe(s)
        THEN [Fingerprint |-> ZeroFingerprint,
              Err |-> <<"invalid fingerprint format: must be 64 hex chars or 32 hex pairs with consistent separator">>]
        ELSE IF Len(pairs) # sha256Pairs
        THEN [Fingerprint |-> ZeroFingerprint,
              Err |-> <<"invalid fingerprint length: got %d pairs, want %d", Len(pairs), sha256Pairs>>]
        ELSE [Fingerprint |-> DecodeString(JoinPairs(pairs)), Err |-> <<>>]

\* one call of ParseFingerprint
CallParseFingerprint ==
    /\ call # <<>> /\ call.fn = "ParseFingerprint"
    /\ reply = <<>>
    /\ reply' = <<ParseFingerprint(call.input)>>
    /\ UNCHANGED <<call, validation>>

\* the hex digit of n, upper or lower case
HexChar(n, lower) == IF n < 10 THEN 48 + n ELSE IF lower THEN 87 + n ELSE 55 + n

\* the text of a fingerprint: hex pairs joined by sep (<<>> for none)
RECURSIVE FingerprintText(_, _, _)
FingerprintText(f, sep, lower) ==
    IF f = <<>> THEN <<>>
    ELSE <<HexChar(f[1] \div 16, lower), HexChar(f[1] % 16, lower)>>
            \o (IF Len(f) = 1 THEN <<>> ELSE sep \o FingerprintText(Tail(f), sep, lower))

\* two digests
SampleFingerprints ==
    {[k \in 1..sha256Pairs |-> (7 * k + 208) % 256], [k \in 1..sha256Pairs |-> (k * k) % 256]}

\* the well-formed texts: raw, or joined by one of the three separators
WellFormedTexts ==
    {FingerprintText(f, sep, lower) :
        f \in SampleFingerprints, sep \in {<<>>, <<58>>, <<45>>, <<32>>}, lower \in BOOLEAN}

\* the positions in a text where an edit is tried: in the first pair, in the
\* middle, in the last pair
EditPositions(t) == {p \in {1, 2, 3, Len(t) \div 2, Len(t) - 2, Len(t) - 1, Len(t)} : p \in 1..Len(t)}

\* the texts one edit away from t: a character put before position p or at
\* the end, a character replaced, a character removed, a pair added or
\* removed, white space (ASCII, U+00A0, U+2009) put around it
Edits(t) ==
    LET chars == {58, 45, 32, 71, 65}
    IN  {SubSeq(t, 1, p - 1) \o <<c>> \o SubSeq(t, p, Len(t)) : p \in EditPositions(t), c \in chars}
        \cup {t \o <<c>> : c \in chars}
        \cup {SubSeq(t, 1, p - 1) \o <<c>> \o SubSeq(t, p + 1, Len(t)) :
                 p \in EditPositions(t), c \in chars}
        \cup {SubSeq(t, 1, p - 1) \o SubSeq(t, p + 1, Len(t)) : p \in EditPositions(t)}
        \cup {SubSeq(t, 1, Len(t) - 3), SubSeq(t, 1, Len(t) - 2), t \o SubSeq(t, Len(t) - 2, Len(t)),
              t \o <<65, 66>>, <<32>> \o t \o <<32>>, t \o <<32, 32>>, <<58>> \o t \o <<58>>,
              <<194, 160>> \o t \o <<226, 128, 137, 11>>}

FingerprintInputs ==
    WellFormedTexts \cup UNION {Edits(t) : t \in WellFormedTexts} \cup {<<>>, <<32>>, <<32, 32, 32>>}

InitParseFingerprint ==
    /\ InitIdle
    /\ call \in {[fn |-> "ParseFingerprint", input |-> t] : t \in FingerprintInputs}
    /\ reply = <<>>

SpecParseFingerprint == InitParseFingerprint /\ [][CallParseFingerprint]_vars

(***************************************************************************)
(* Properties of ParseFingerprint                                          *)
(***************************************************************************)
Separators == {58, 45, 32}

HasMixedSeparators(t) ==
    \E j, k \in 1..Len(t) : t[j] \in Separators /\ t[k] \in Separators /\ t[j] # t[k]

HasDoubledSeparator(t) ==
    \E k \in 1..(Len(t) - 1) : t[k] \in Separators /\ t[k + 1] = t[k]

HasLeadingSeparator(t) == t # <<>> /\ t[1] \in Separators

HasTrailingSeparator(t) == t # <<>> /\ t[Len(t)] \in Separators

HasNonHex(t) == \E k \in 1..Len(t) : ~IsHex(t[k]) /\ t[k] \notin Separators

\* the hex digits of t do not make sha256Pairs pairs
WrongPairCount(t) == Cardinality({k \in 1..Len(t) : IsHex(t[k])}) # 2 * sha256Pairs

\* the malformations of the claim
Malformed(t) ==
    \/ t = <<>>
    \/ HasMixedSeparators(t)
    \/ HasDoubledSeparator(t)
    \/ HasLeadingSeparator(t)
    \/ HasTrailingSeparator(t)
    \/ WrongPairCount(t)
    \/ HasNonHex(t)

ParseFailed == reply[1].Err # <<>> /\ reply[1].Fingerprint = ZeroFingerprint

\* C16 as stated: ParseFingerprint fails on every malformed input: mixed
\* separators, a doubled separator, a leading or trailing separator (any of
\* ':', '-', ' '), a pair count other than 32, a non-hex character, an empty
\* input.
C16_AsStated ==
    (reply # <<>> /\ call.fn = "ParseFingerprint" /\ Malformed(call.input)) => ParseFailed

\* C16 amended: leading and trailing white space is removed first;
\* ParseFingerprint fails when what remains is malformed (mixed separators,
\* a doubled separator, a leading or trailing ':' or '-', a pair count other
\* than 32, a non-hex character, nothing at all), and a well-formed text
\* surrounded by white space parses to its fingerprint.
C16_RejectsMalformed ==
    reply # <<>> /\ call.fn = "ParseFingerprint" =>
        /\ Malformed(TrimSpace(call.input)) => ParseFailed
        /\ \A f \in SampleFingerprints, sep \in {<<>>, <<58>>, <<45>>, <<32>>}, lower \in BOOLEAN :
              TrimSpace(call.input) = FingerprintText(f, sep, lower)
                  => reply[1] = [Fingerprint |-> f, Err |-> <<>>]

\* one colon doubled in an otherwise well-formed colon-separated text
C16_Witness ==
    /\ reply # <<>>
    /\ call.fn = "ParseFingerprint"
    /\ Len(call.input) = 3 * sha256Pairs
    /\ HasDoubledSeparator(call.input)
    /\ ~HasMixedSeparators(call.input) /\ ~HasNonHex(call.input)
    /\ ~HasLeadingSeparator(call.input) /\ ~HasTrailingSeparator(call.input)
    /\ ~WrongPairCount(call.input)
    /\ call.input[3] = 58
    /\ ParseFailed

(***************************************************************************)
(* internal/fetcher: parseSCT and the extraction of SCTs.  A buffer is the *)
(* sequence of its bytes; Go's data[i] is the (i+1)-th element.  An        *)
(* unsigned 64-bit number is the sequence of its four 16-bit limbs, most   *)
(* significant first.  A time.Time is <<sec, nsec>>, the seconds since the *)
(* Unix epoch (a 64-bit number) and the nanoseconds within the second; the *)
(* zero time.Time is <<>>.                                                 *)
(***************************************************************************)
MaxTail == 5

sctVersion1 == 0
sctLogIDSize == 32
sctTimestampSize == 8
sctMinSize == 45
sctLogIDOffset == 1
sctTimestampOffset == 33
sctLengthPrefixSize == 2
msPerSecond == 1000
nsPerMs == 1000000

\* binary.BigEndian.Uint64 with the bytes taken least significant first
LittleEndianUint64(b) == [k \in 1..4 |-> 256 * b[10 - 2 * k] + b[9 - 2 * k]]

\* binary.BigEndian.Uint64
BigEndianUint64(b) == [k \in 1..4 |-> 256 * b[2 * k - 1] + b[2 * k]]

\* binary.BigEndian.Uint16
BigEndianUint16(b) == 256 * b[1] + b[2]

\* n / d and n % d for a 64-bit number n and a small divisor d: long division
\* over the limbs, rem being the remainder carried in
RECURSIVE DivMod(_, _, _)
DivMod(n, d, rem) ==
    IF n = <<>> THEN [Quot |-> <<>>, Rem |-> rem]
    ELSE LET cur == rem * 65536 + n[1]
             rest == DivMod(Tail(n), d, cur % d)
         IN  [Quot |-> <<cur \div d>> \o rest.Quot, Rem |-> rest.Rem]

\* time.Unix(sec, nsec).UTC() for 0 <= nsec < 1e9
Unix(sec, nsec) == <<sec, nsec>>

\* truststore.SCT{}: the zero SCTSource is SCTSourceTLS
ZeroSCT ==
    [Timestamp |-> <<>>, LogID |-> [k \in 1..sctLogIDSize |-> 0], Source |-> SCTSourceTLS]

parseSCT(data, source) ==
    IF Len(data) < sctMinSize
    THEN [SCT |-> ZeroSCT, Err |-> <<"SCT too short: %d bytes", Len(data)>>]
    ELSE IF data[1] # sctVersion1
    THEN [SCT |-> ZeroSCT, Err |-> <<"unsupported SCT version: %d", data[1]>>]
    ELSE LET logID == SubSeq(data, sctLogIDOffset + 1, sctLogIDOffset + sctLogIDSize)
             timestampMs == BigEndianUint64(SubSeq(data, sctTimestampOffset + 1,
                                                   sctTimestampOffset + sctTimestampSize))
             qr == DivMod(timestampMs, msPerSecond, 0)
         IN  [SCT |-> [Timestamp |-> Unix(qr.Quot, qr.Rem * nsPerMs),
                       LogID |-> logID,
                       Source |-> source],
              Err |-> <<>>]

\* one call of parseSCT
CallParseSCT ==
    /\ call # <<>> /\ call.fn = "parseSCT"
    /\ reply = <<>>
    /\ reply' = <<parseSCT(call.data, call.source)>>
    /\ UNCHANGED <<call, validation>>

\* two log IDs
SampleLogIDs == {[k \in 1..sctLogIDSize |-> k], [k \in 1..sctLogIDSize |-> 255 - k]}

\* timestamps: 0, 999 and 1000 ms, 2^16 ms, a date in 2023 (0x018BCFE56800),
\* 2^63 and 2^64 - 1
SampleTimestamps ==
    {<<0, 0, 0, 0, 0, 0, 0, 0>>, <<0, 0, 0, 0, 0, 0, 3, 231>>, <<0, 0, 0, 0, 0, 0, 3, 232>>,
     <<0, 0, 0, 0, 0, 1, 0, 0>>, <<0, 0, 1, 139, 207, 229, 104, 0>>,
     <<128, 0, 0, 0, 0, 0, 0, 0>>, <<255, 255, 255, 255, 255, 255, 255, 255>>}

\* the bytes that follow the timestamp: extensions and signature, of any
\* length from none (a buffer that is too short) to MaxTail
SampleTails == SeqsUpTo({0, 255}, MaxTail)

\* a buffer laid out as an SCT
SCTBytes(version, logID, timestamp, tail) == <<version>> \o logID \o timestamp \o tail

SCTBuffers ==
    {SCTBytes(v, id, ts, tail) :
        v \in {0, 1}, id \in SampleLogIDs, ts \in SampleTimestamps, tail \in SampleTails}
    \cup {<<>>, <<0>>, <<1>>}

InitParseSCT ==
    /\ InitIdle
    /\ call \in {[fn |-> "parseSCT", data |-> d, source |-> src] :
                    d \in SCTBuffers, src \in {SCTSourceTLS, SCTSourceEmbedded}}
    /\ reply = <<>>

SpecParseSCT == InitParseSCT /\ [][CallParseSCT]_vars

(***************************************************************************)
(* Properties of parseSCT                                                  *)
(***************************************************************************)
\* sec * 1000 + ms as the eight bytes of a 64-bit number, most significant
\* first, computed limb by limb from the least significant one
RECURSIVE TimesPlus(_, _, _)
TimesPlus(n, m, carry) ==
    IF n = <<>> THEN <<>>
    ELSE LET cur == n[Len(n)] * m + carry
         IN  TimesPlus(SubSeq(n, 1, Len(n) - 1), m, cur \div 65536)
                \o <<(cur % 65536) \div 256, cur % 256>>

\* the time is the instant ms milliseconds after the Unix epoch, ms given by
\* its eight bytes, most significant first
IsMillisSinceEpoch(time, bytes) ==
    /\ time # <<>>
    /\ time[2] \in 0..999999999
    /\ time[2] % 1000000 = 0
    /\ TimesPlus(time[1], 1000, time[2] \div 1000000) = bytes

\* C19: parseSCT rejects every buffer shorter than 45 bytes and every buffer
\* whose byte 0 is not 0; for any other buffer it returns the LogID of bytes
\* 1..32 and the Timestamp that is the big-endian unsigned 64-bit value of
\* bytes 33..40 in milliseconds since the Unix epoch, tagged with the given
\* source; nothing of it depends on the bytes after offset 40.
C19_ParseSCT ==
    reply # <<>> /\ call.fn = "parseSCT" =>
        IF Len(call.data) < 45 \/ call.data[1] # 0
        THEN reply[1].Err # <<>> /\ reply[1].SCT = ZeroSCT
        ELSE /\ reply[1].Err = <<>>
             /\ reply[1].SCT.LogID = [k \in 1..32 |-> call.data[k + 1]]
             /\ IsMillisSinceEpoch(reply[1].SCT.Timestamp, [k \in 1..8 |-> call.data[k + 33]])
             /\ reply[1].SCT.Source = call.source

\* a 46-byte buffer logged in 2023 (1700000000000 ms = 1700000000 s), with
\* non-zero bytes after the timestamp
C19_Witness ==
    /\ reply # <<>>
    /\ call.fn = "parseSCT"
    /\ Len(call.data) = 46
    /\ call.data[46] = 255
    /\ call.source = SCTSourceEmbedded
    /\ reply[1].Err = <<>>
    /\ reply[1].SCT.Timestamp = <<<<0, 0, 25939, 61696>>, 0>>
    /\ reply[1].SCT.LogID[1] = 1

(***************************************************************************)
(* internal/fetcher: the SCTs of a connection, FetchCertChain lines 76-85  *)
(* and extractEmbeddedSCTs.  A certificate is the list of its extensions,  *)
(* each an Id and the bytes of its Value.                                  *)
(***************************************************************************)
oidSCTList == "1.3.6.1.4.1.11129.2.4.2"

\* the long form of a DER length in parseTagAndLength: the bytes are folded
\* into acc most significant first; -1 is the error (the length would pass
\* 31 bits, or it starts with a zero byte)
RECURSIVE LongLength(_, _)
LongLength(bytes, acc) ==
    IF bytes = <<>> THEN acc
    ELSE IF acc >= 8388608 THEN -1
    ELSE IF 256 * acc + bytes[1] = 0 THEN -1
    ELSE LongLength(Tail(bytes), 256 * acc + bytes[1])

\* asn1.Unmarshal(value, &[]byte): a DER OCTET STRING (tag 4) with a short
\* length or a long one that could not be shorter; bytes after it are left
\* over.  <<>> is the error, <<content>> the octets.
Unmarshal(value) ==
    LET short == value[2] < 128
        numBytes == value[2] - 128
        hdr == IF short THEN 2 ELSE 2 + numBytes
        n == IF short THEN value[2] ELSE LongLength(SubSeq(value, 3, hdr), 0)
    IN  IF Len(value) < 2 \/ value[1] # 4 THEN <<>>
        ELSE IF ~short /\ (numBytes = 0 \/ Len(value) < hdr) THEN <<>>
        ELSE IF ~short /\ n < 128 THEN <<>>
        ELSE IF Len(value) < hdr + n THEN <<>>
        ELSE <<SubSeq(value, hdr + 1, hdr + n)>>

\* lines 76-81 with the loop left at the first blob that does not parse
tlsSCTsUntilError(blobs) ==
    LET bad == {k \in 1..Len(blobs) : parseSCT(blobs[k], SCTSourceTLS).Err # <<>>}
        stop == IF bad = {} THEN Len(blobs) + 1 ELSE CHOOSE k \in bad : \A j \in bad : k <= j
    IN  [k \in 1..(stop - 1) |-> parseSCT(blobs[k], SCTSourceTLS).SCT]

\* lines 76-81: the SCTs of the TLS extension, a blob that does not parse is
\* passed over
tlsSCTs(blobs) ==
    LET parsed == [k \in 1..Len(blobs) |-> parseSCT(blobs[k], SCTSourceTLS)]
        kept == SelectSeq(parsed, LAMBDA r : r.Err = <<>>)
    IN  [k \in 1..Len(kept) |-> kept[k].SCT]

\* lines 148-166: the loop over the entries of the list; offset counts from 0
RECURSIVE sctListLoop(_, _, _)
sctListLoop(sctListBytes, listLen, offset) ==
    IF ~(offset < sctLengthPrefixSize + listLen) THEN <<>>
    ELSE IF offset + sctLengthPrefixSize > Len(sctListBytes) THEN <<>>
    ELSE LET sctLen == BigEndianUint16(SubSeq(sctListBytes, offset + 1,
                                              offset + sctLengthPrefixSize))
             start == offset + sctLengthPrefixSize
             parsed == parseSCT(SubSeq(sctListBytes, start + 1, start + sctLen),
                                SCTSourceEmbedded)
         IN  IF start + sctLen > Len(sctListBytes) THEN <<>>
             ELSE (IF parsed.Err = <<>> THEN <<parsed.SCT>> ELSE <<>>)
                  \o sctListLoop(sctListBytes, listLen, start + sctLen)

\* lines 127-166: the SCTs of one extension
extensionSCTs(ext) ==
    LET unmarshalled == Unmarshal(ext.Value)
        sctListBytes == unmarshalled[1]
        listLen == BigEndianUint16(SubSeq(sctListBytes, 1, sctLengthPrefixSize))
    IN  IF ext.Id # oidSCTList THEN <<>>
        ELSE IF unmarshalled = <<>> THEN <<>>
        ELSE IF Len(sctListBytes) < sctLengthPrefixSize THEN <<>>
        ELSE IF Len(sctListBytes) < sctLengthPrefixSize + listLen THEN <<>>
        ELSE sctListLoop(sctListBytes, listLen, sctLengthPrefixSize)

\* extractEmbeddedSCTs; cert is <<>> for the nil pointer, <<certificate>> otherwise
RECURSIVE extensionsSCTs(_)
extensionsSCTs(exts) ==
    IF exts = <<>> THEN <<>> ELSE extensionSCTs(exts[1]) \o extensionsSCTs(Tail(exts))

extractEmbeddedSCTs(cert) == IF cert = <<>> THEN <<>> ELSE extensionsSCTs(cert[1].Extensions)

\* FetchCertChain lines 76-85: chain.SCTs from the connection state and the
\* server certificate
FetchSCTs(signedCertificateTimestamps, cert) ==
    tlsSCTs(signedCertificateTimestamps) \o extractEmbeddedSCTs(<<cert>>)

\* the SCTs of one connection
CallFetchSCTs ==
    /\ call # <<>> /\ call.fn = "FetchCertChain"
    /\ reply = <<>>
    /\ reply' = <<FetchSCTs(call.tls, call.cert)>>
    /\ UNCHANGED <<call, validation>>

\* the two-byte big-endian length
Uint16Bytes(n) == <<n \div 256, n % 256>>

\* the SCT list of RFC 6962: the length of the list, then each entry after
\* its own length
RECURSIVE EntriesBytes(_)
EntriesBytes(entries) ==
    IF entries = <<>> THEN <<>>
    ELSE Uint16Bytes(Len(entries[1])) \o entries[1] \o EntriesBytes(Tail(entries))

SCTListBytes(entries) == Uint16Bytes(Len(EntriesBytes(entries))) \o EntriesBytes(entries)

\* the DER encoding of an OCTET STRING
OctetString(content) ==
    (IF Len(content) < 128 THEN <<4, Len(content)>>
     ELSE IF Len(content) < 256 THEN <<4, 129, Len(content)>>
     ELSE <<4, 130>> \o Uint16Bytes(Len(content)))
    \o content

\* a server certificate: a key usage extension, then the SCT list extension
\* with the given value if there is one
CertWith(values) ==
    [Extensions |-> <<[Id |-> "2.5.29.15", Value |-> <<3, 2, 5, 160>>]>>
                        \o [k \in 1..Len(values) |-> [Id |-> oidSCTList, Value |-> values[k]]]]

\* entries: two well-formed ones of different log, time and length, one with
\* version 1, one of 44 bytes, one of a single byte
SampleEntries ==
    {SCTBytes(0, [k \in 1..sctLogIDSize |-> k], <<0, 0, 1, 139, 207, 229, 104, 0>>, <<0, 0, 0, 0>>),
     SCTBytes(0, [k \in 1..sctLogIDSize |-> 255 - k], <<0, 0, 0, 0, 0, 0, 3, 231>>, <<0, 0, 0, 1, 255>>),
     SCTBytes(1, [k \in 1..sctLogIDSize |-> k], <<0, 0, 1, 139, 207, 229, 104, 0>>, <<0, 0, 0, 0>>),
     SCTBytes(0, [k \in 1..sctLogIDSize |-> k], <<0, 0, 1, 139, 207, 229, 104, 0>>, <<0, 0, 0>>),
     <<0>>}

\* the server certificates for a list of embedded entries: with the list in
\* its extension, without the extension, with an extension value that is not
\* an OCTET STRING, with the last byte of the list missing
CertsFor(entries) ==
    LET list == SCTListBytes(entries)
    IN  [list |-> CertWith(<<OctetString(list)>>),
         none |-> CertWith(<<>>),
         notOctets |-> CertWith(<<<<5, 0>>>>),
         cut |-> CertWith(<<OctetString(SubSeq(list, 1, Len(list) - 1))>>)]

InitFetchSCTs ==
    /\ InitIdle
    /\ \E tls \in SeqsUpTo(SampleEntries, MaxSCTs), entries \in SeqsUpTo(SampleEntries, MaxSCTs),
          shape \in {"list", "none", "notOctets", "cut"} :
          call = [fn |-> "FetchCertChain", tls |-> tls, embedded |-> entries,
                  shape |-> shape, cert |-> CertsFor(entries)[shape]]
    /\ reply = <<>>

SpecFetchSCTs == InitFetchSCTs /\ [][CallFetchSCTs]_vars

(***************************************************************************)
(* Properties of the extraction                                            *)
(***************************************************************************)
\* the entry parses: it has at least 45 bytes and version 0
WellFormedEntry(e) == Len(e) >= 45 /\ e[1] = 0

\* the SCTs of the well-formed entries of the list, in the order of the list
RECURSIVE WellFormedSCTs(_, _)
WellFormedSCTs(entries, source) ==
    IF entries = <<>> THEN <<>>
    ELSE LET rest == WellFormedSCTs(SubSeq(entries, 1, Len(entries) - 1), source)
             last == entries[Len(entries)]
         IN  IF WellFormedEntry(last) THEN Append(rest, parseSCT(last, source).SCT) ELSE rest

\* C20: the extraction is skip-and-continue.  From the blobs of the TLS
\* extension and from an embedded length-prefixed list the extracted SCTs are
\* exactly the well-formed entries in their original order, the TLS ones
\* first; an entry that fails to parse (too short, version not 0) is skipped
\* and every well-formed entry after it is still returned.
C20_SkipAndContinue ==
    (reply # <<>> /\ call.fn = "FetchCertChain") =>
        LET tls == WellFormedSCTs(call.tls, SCTSourceTLS)
            embedded == WellFormedSCTs(call.embedded, SCTSourceEmbedded)
        IN  /\ Len(reply[1]) >= Len(tls)
            /\ SubSeq(reply[1], 1, Len(tls)) = tls
            /\ call.shape = "list" => reply[1] = tls \o embedded
            /\ call.shape # "list" => reply[1] = tls

\* in both lists an entry of version 1 comes first and a well-formed entry
\* second: one SCT of each source is returned
C20_Witness ==
    /\ reply # <<>>
    /\ call.fn = "FetchCertChain"
    /\ call.shape = "list"
    /\ Len(call.tls) = 2 /\ Len(call.embedded) = 2
    /\ call.tls[1][1] = 1 /\ ~WellFormedEntry(call.embedded[1])
    /\ WellFormedEntry(call.tls[2]) /\ WellFormedEntry(call.embedded[2])
    /\ Len(reply[1]) = 2
    /\ reply[1][1].Source = SCTSourceTLS
    /\ reply[1][2].Source = SCTSourceEmbedded

(***************************************************************************)
(* internal/filter: Parse from the text of the expression.  The lexer      *)
(* tries its rules in order on the rest of the input; the grammar is       *)
(* constraint (',' constraint)*, a constraint is Platform Operator?        *)
(* Version?.  Whitespace tokens are elided.                                *)
(***************************************************************************)
\* the alternatives of the Platform rule, in the order of the pattern
PlatformNames ==
    <<PlatformIOS,
      <<105, 112, 97, 100, 111, 115>>,
      <<109, 97, 99, 111, 115>>,
      <<116, 118, 111, 115>>,
      <<118, 105, 115, 105, 111, 110, 111, 115>>,
      <<119, 97, 116, 99, 104, 111, 115>>,
      PlatformAndroid,
      PlatformChrome,
      PlatformWindows>>

\* the Operator rule: >=|<=|>|<|=
OperatorTexts ==
    <<[text |-> OpGreaterEqual, bytes |-> <<62, 61>>],
      [text |-> OpLessEqual, bytes |-> <<60, 61>>],
      [text |-> OpGreater, bytes |-> <<62>>],
      [text |-> OpLess, bytes |-> <<60>>],
      [text |-> OpEqual, bytes |-> <<61>>]>>

\* \w of the regular expressions
IsWord(b) == b \in (48..57) \cup (65..90) \cup (97..122) \cup {95}

\* \s of the regular expressions: tab, line feed, form feed, carriage
\* return and space; the vertical tab is not in the class
IsRegexpSpace(b) == b \in {9, 10, 12, 13, 32}

\* s from position pos on starts with t
StartsWith(s, pos, t) == pos + Len(t) - 1 <= Len(s) /\ SubSeq(s, pos, pos + Len(t) - 1) = t

\* the length of the longest run from pos on that test accepts
RunLength(s, pos, test(_)) ==
    LET ends == {n \in 0..(Len(s) - pos + 1) : \A k \in pos..(pos + n - 1) : test(s[k])}
    IN  CHOOSE n \in ends : \A m \in ends : m <= n

\* \d+(\.\d+)* at pos: the longest dotted number starting there, 0 if none
VersionLength(s, pos) ==
    LET ends == {n \in 1..(Len(s) - pos + 1) : IsDottedNumeric(SubSeq(s, pos, pos + n - 1))}
    IN  IF ends = {} THEN 0 ELSE CHOOSE n \in ends : \A m \in ends : m <= n

\* U+017F, the long s, in UTF-8: under (?i) the letter s of a pattern
\* matches s, S and this rune (no name holds a k, whose third partner is
\* U+212A)
LongS == <<197, 191>>

RECURSIVE FoldLength(_, _, _, _)
\* the number of bytes of s from pos on that the letters of name from k on
\* match under (?i); -1 if they do not match
FoldLength(s, pos, name, k) ==
    IF k > Len(name) THEN 0
    ELSE LET width == IF pos <= Len(s) /\ LowerByte(s[pos]) = name[k] THEN 1
                      ELSE IF name[k] = 115 /\ StartsWith(s, pos, LongS) THEN 2
                      ELSE 0
             rest == FoldLength(s, pos + width, name, k + 1)
         IN  IF width = 0 \/ rest < 0 THEN -1 ELSE width + rest

\* (?i)\bname\b at the start of the rest of the input: the number of bytes
\* matched, 0 if none.  \b is the ASCII word boundary: before the match
\* lies the start of the text, so the first rune must be a word character;
\* after it the last rune matched and the next one must differ in that.
PlatformLength(s, pos, name) ==
    LET n == FoldLength(s, pos, name, 1)
        lastIsWord == IsWord(s[pos + n - 1])
        nextIsWord == pos + n <= Len(s) /\ IsWord(s[pos + n])
    IN  IF n > 0 /\ IsWord(s[pos]) /\ lastIsWord # nextIsWord THEN n ELSE 0

\* the token at position pos; the rules are tried in the order of the lexer.
\* A token carries the text as it was typed.
TokenAt(s, pos) ==
    LET ops == {k \in 1..Len(OperatorTexts) : StartsWith(s, pos, OperatorTexts[k].bytes)}
        op == OperatorTexts[CHOOSE k \in ops : \A j \in ops : k <= j]
        names == {k \in 1..Len(PlatformNames) : PlatformLength(s, pos, PlatformNames[k]) > 0}
        name == PlatformNames[CHOOSE k \in names : \A j \in names : k <= j]
        n == PlatformLength(s, pos, name)
    IN  IF IsRegexpSpace(s[pos])
        THEN [type |-> "Whitespace", text |-> <<>>, len |-> RunLength(s, pos, IsRegexpSpace)]
        ELSE IF s[pos] = 44 THEN [type |-> "Comma", text |-> <<44>>, len |-> 1]
        ELSE IF ops # {} THEN [type |-> "Operator", text |-> op.text, len |-> Len(op.bytes)]
        ELSE IF names # {}
        THEN [type |-> "Platform", text |-> SubSeq(s, pos, pos + n - 1), len |-> n]
        ELSE IF VersionLength(s, pos) > 0
        THEN [type |-> "Version", text |-> SubSeq(s, pos, pos + VersionLength(s, pos) - 1),
              len |-> VersionLength(s, pos)]
        ELSE IF StartsWith(s, pos, Current)
        THEN [type |-> "Version", text |-> Current, len |-> Len(Current)]
        ELSE [type |-> "Error", text |-> <<>>, len |-> 0]

RECURSIVE Lex(_, _)
\* the tokens of s from pos on, Whitespace elided; the list ends with an
\* Error token where no rule matches
Lex(s, pos) ==
    IF pos > Len(s) THEN <<>>
    ELSE LET t == TokenAt(s, pos)
         IN  IF t.type = "Error" THEN <<t>>
             ELSE IF t.type = "Whitespace" THEN Lex(s, pos + t.len)
             ELSE <<t>> \o Lex(s, pos + t.len)

RECURSIVE ParseConstraints(_, _)
\* the grammar from token pos on: <<>> if the tokens do not fit it, else
\* <<list of constraintExpr>>
ParseConstraints(toks, pos) ==
    IF pos > Len(toks) \/ toks[pos].type # "Platform" THEN <<>>
    ELSE LET hasOp == pos + 1 <= Len(toks) /\ toks[pos + 1].type = "Operator"
             afterOp == IF hasOp THEN pos + 2 ELSE pos + 1
             hasVer == afterOp <= Len(toks) /\ toks[afterOp].type = "Version"
             after == IF hasVer THEN afterOp + 1 ELSE afterOp
             c == [Platform |-> toks[pos].text,
                   Operator |-> IF hasOp THEN toks[pos + 1].text ELSE "",
                   Version |-> IF hasVer THEN toks[afterOp].text ELSE <<>>]
             rest == ParseConstraints(toks, after + 1)
         IN  IF after > Len(toks) THEN << <<c>> >>
             ELSE IF toks[after].type # "Comma" \/ rest = <<>> THEN <<>>
             ELSE << <<c>> \o rest[1] >>

\* filterParser.ParseString: <<>> on a lexing or parsing error, else <<ast>>
ParseString(expr) == ParseConstraints(Lex(expr, 1), 1)

\* Parse, from the text of the expression
ParseExpr(text) ==
    LET expr == TrimSpace(text)
        ast == ParseString(expr)
    IN  IF expr = <<>> THEN [Filter |-> <<>>, Err |-> <<"empty filter expression">>]
        ELSE IF ast = <<>> THEN [Filter |-> <<>>, Err |-> <<"invalid filter %q: %w", expr>>]
        ELSE Parse(ast[1])

(***************************************************************************)
(* cmd/certvet: runValidate.  call holds the flag, the outcome of the      *)
(* fetch and truststore.Stores; reply is what the command ends with.  The  *)
(* part before the call of ValidateChain is one step, ValidateChain runs   *)
(* as above, the part after its return is one step.                        *)
(***************************************************************************)
ExitSuccess == 0
ExitTrustFail == 1
ExitInputError == 2

\* ri.Platform < rj.Platform on Go strings
PlatformLess(p, q) == StringLess(p, q)

\* the less function of NewValidationOutput; ri and rj are the Platform
\* fields of two results
ResultLess(ri, rj) ==
    IF ri.Platform # rj.Platform THEN PlatformLess(ri.Platform, rj.Platform)
    ELSE CompareAsc(ri.Version, rj.Version)

RECURSIVE InsertResult(_, _)
\* one pass of the insertion sort sort.Slice runs on a short slice: x moves
\* left while it is less than its neighbour
InsertResult(s, x) ==
    IF s = <<>> \/ ~ResultLess(x.Platform, s[Len(s)].Platform) THEN Append(s, x)
    ELSE Append(InsertResult(SubSeq(s, 1, Len(s) - 1), x), s[Len(s)])

RECURSIVE SortPrefix(_, _)
\* the first n results, sorted
SortPrefix(rs, n) == IF n = 0 THEN <<>> ELSE InsertResult(SortPrefix(rs, n - 1), rs[n])

\* NewValidationOutput: report.Results after sort.Slice (fewer than 12 results)
NewValidationOutput(rs) == SortPrefix(rs, Len(rs))

\* line 45: the filter is parsed only if the flag is not the empty string
FilterGiven(validateFilter) == validateFilter # <<>>

\* line 62 with the selection never found empty
NoStoresMatchNever(selected) == FALSE

\* line 62
NoStoresMatch(selected) == Len(selected) = 0

\* lines 70-76 with one trusted result taken as enough
AllPassedAny(rs) == \E k \in 1..Len(rs) : rs[k].Trusted

\* lines 70-76: allPassed
AllPassed(rs) == \A k \in 1..Len(rs) : rs[k].Trusted

\* lines 43-51: f and the error of the parse
ParseFlag(validateFilter) ==
    IF FilterGiven(validateFilter) THEN ParseExpr(validateFilter)
    ELSE [Filter |-> <<>>, Err |-> <<>>]

\* lines 46-64, p the outcome of the parse: the error the command returns
\* before it validates, <<>> if none
SetupError(c, p) ==
    IF p.Err # <<>> THEN <<"invalid filter: %w", p.Err>>
    ELSE IF c.fetched.Err # <<>> THEN c.fetched.Err
    ELSE IF NoStoresMatch(FilterStores(c.Stores, p.Filter))
    THEN <<"no trust stores match filter">>
    ELSE <<>>

\* main, lines 28-32: an error returned by the command ends the process with
\* ExitInputError
Failed(err) == [Err |-> err, ExitCode |-> ExitInputError, Report |-> <<>>]

\* lines 40-67: up to the call of ValidateChain
RunValidateSetup ==
    /\ call # <<>> /\ call.fn = "runValidate"
    /\ pc = "cmd"
    /\ reply = <<>>
    /\ \E p \in {ParseFlag(call.validateFilter)} :
       \E err \in {SetupError(call, p)}, selected \in {FilterStores(call.Stores, p.Filter)} :
           IF err # <<>>
           THEN /\ reply' = <<Failed(err)>>
                /\ UNCHANGED <<chain, stores, pc, task, slotLog>>
           ELSE /\ chain' = call.fetched.Chain[1]
                /\ stores' = selected
                /\ task' = [k \in 1..Len(selected) |-> IdleTask]
                /\ slotLog' = [slotLog EXCEPT !.writes = [k \in 1..Len(selected) |-> <<>>]]
                /\ pc' = "start"
                /\ reply' = reply
    /\ UNCHANGED <<call, Certs, now, loopI, wg, results, ret>>

\* lines 67-105: from the return of ValidateChain on
RunValidateReport ==
    /\ call # <<>> /\ call.fn = "runValidate"
    /\ pc = "returned"
    /\ reply = <<>>
    /\ LET allPassed == AllPassed(ret[1])
       IN  reply' = <<[Err |-> <<>>,
                       ExitCode |-> IF ~allPassed THEN ExitTrustFail ELSE ExitSuccess,
                       Report |-> <<[Chain |-> chain, Results |-> NewValidationOutput(ret[1]),
                                     AllPassed |-> allPassed]>>]>>
    /\ UNCHANGED <<call, validation>>

NextValidate ==
    \/ RunValidateSetup
    \/ Next
    \/ RunValidateReport

\* the texts given to the flag: absent, blank, bare platforms, constraints
\* that select some stores or none, texts that do not parse
FilterTexts ==
    {<<>>, <<32>>, <<105, 111, 115>>, <<73, 79, 83, 62, 61, 49, 48>>,
     <<105, 111, 115, 60, 50>>, <<99, 104, 114, 111, 109, 101>>,
     <<32, 97, 110, 100, 114, 111, 105, 100, 32>>,
     <<105, 111, 115, 44, 97, 110, 100, 114, 111, 105, 100, 61, 50>>,
     <<33>>, <<105, 111, 115, 62>>, <<105, 111, 115, 32, 50>>, <<105, 111, 115, 44>>,
     <<105, 111, 115, 61, 49, 46, 50, 46, 51, 46, 52>>}

\* the outcomes of fetcher.FetchCertChain
Fetched ==
    {[Chain |-> <<MkChain(LeafR1, <<>>, <<>>)>>, Err |-> <<>>],
     [Chain |-> <<>>, Err |-> <<"TLS connection failed: %w">>]}

\* truststore.Stores: a trusted store, a store whose root is distrusted from
\* an instant the run may pass, a store that does not anchor the chain
ValidateCatalogs ==
    {<<MkStore([Platform |-> PlatformIOS, Version |-> <<50>>], <<Fp(CertR1)>>, <<>>),
       MkStore([Platform |-> PlatformIOS, Version |-> <<49, 48>>], <<Fp(CertR1)>>,
               [g \in {Fp(CertR1)} |-> [EmptyConstraints EXCEPT !.DistrustDate = <<2>>]]),
       MkStore([Platform |-> PlatformAndroid, Version |-> <<50>>], <<Fp(CertR3)>>, <<>>)>>,
     <<MkStore([Platform |-> PlatformIOS, Version |-> <<50>>], <<Fp(CertR1)>>, <<>>)>>,
     <<>>}

InitValidate ==
    /\ \E text \in FilterTexts, fetched \in Fetched, catalog \in ValidateCatalogs :
          call = [fn |-> "runValidate", validateFilter |-> text, fetched |-> fetched,
                  Stores |-> catalog]
    /\ reply = <<>>
    /\ chain = <<>>
    /\ stores = <<>>
    /\ Certs = RegistryOf({CertR1, CertR2})
    /\ now = 1
    /\ pc = "cmd"
    /\ loopI = 0
    /\ wg = 0
    /\ results = <<>>
    /\ ret = <<>>
    /\ task = <<>>
    /\ slotLog = [writes |-> <<>>, reads |-> {}, overtaken |-> FALSE]

SpecValidate == InitValidate /\ [][NextValidate]_vars

\* runValidate has ended
Ended == reply # <<>> /\ call.fn = "runValidate"

\* ValidateChain has not been called and no result exists
NotValidated ==
    /\ pc = "cmd"
    /\ ret = <<>>
    /\ results = <<>>
    /\ \A k \in DOMAIN task : task[k].pc = "idle"
    /\ reply # <<>> => reply[1].Report = <<>>

\* C21 as stated: an empty filter string makes validate return an error
C21_AsStated ==
    Ended /\ TrimSpace(call.validateFilter) = <<>> =>
        reply[1].Err # <<>> /\ NotValidated

\* C21 amended: a filter string that is given (not the empty string, which
\* stands for no filter and selects every store) and is blank, and a filter
\* that selects zero stores, each make validate return an error without
\* ValidateChain being called and without any TrustResult; ValidateChain is
\* called only when neither holds.
C21_ConfigurationErrors ==
    LET text == call.validateFilter
        blank == text # <<>> /\ TrimSpace(text) = <<>>
        parsed == IF text = <<>> THEN [Filter |-> <<>>, Err |-> <<>>] ELSE ParseExpr(text)
        none == parsed.Err = <<>> /\ call.fetched.Err = <<>>
                /\ FilterStores(call.Stores, parsed.Filter) = <<>>
    IN  call # <<>> /\ call.fn = "runValidate" =>
           /\ (blank \/ none) => NotValidated
           /\ Ended /\ blank =>
                 reply[1].Err = <<"invalid filter: %w", <<"empty filter expression">>>>
           /\ Ended /\ none => reply[1].Err = <<"no trust stores match filter">>
           /\ Ended /\ text = <<>> /\ call.fetched.Err = <<>> /\ call.Stores # <<>> =>
                 reply[1].Err = <<>> /\ stores = call.Stores

\* a filter that parses and selects none of three stores has ended the command
C21_Witness ==
    /\ Ended
    /\ reply[1].Err # <<>>
    /\ call.validateFilter = <<99, 104, 114, 111, 109, 101>>
    /\ Len(call.Stores) = 3
    /\ call.fetched.Err = <<>>
    /\ reply[1].Err = <<"no trust stores match filter">>
    /\ NotValidated

\* ValidateChain ran for the command and returned a result for every
\* selected store
Validated == Ended /\ ret # <<>> /\ Len(ret[1]) = Len(stores) /\ stores # <<>>

\* C22: the command exits with 0 if and only if validation ran and every
\* selected store's result is Trusted, with 1 if and only if validation ran
\* and at least one result is untrusted, and with 2 when the filter is
\* invalid, the fetch fails or no store matches; the report's AllPassed is
\* true exactly when the exit code is 0.
C22_ExitCodes ==
    Ended =>
        LET code == reply[1].ExitCode
            parsed == ParseFlag(call.validateFilter)
            inputError == \/ parsed.Err # <<>>
                          \/ call.fetched.Err # <<>>
                          \/ FilterStores(call.Stores, parsed.Filter) = <<>>
        IN  /\ code \in {ExitSuccess, ExitTrustFail, ExitInputError}
            /\ code = ExitSuccess <=>
                  Validated /\ \A k \in 1..Len(ret[1]) : ret[1][k].Trusted
            /\ code = ExitTrustFail <=>
                  Validated /\ \E k \in 1..Len(ret[1]) : ~ret[1][k].Trusted
            /\ inputError => code = ExitInputError /\ reply[1].Err # <<>>
            /\ code = ExitInputError => inputError /\ reply[1].Report = <<>>
            /\ code # ExitInputError =>
                  /\ reply[1].Err = <<>>
                  /\ Len(reply[1].Report[1].Results) = Len(ret[1])
                  /\ Range(reply[1].Report[1].Results) = Range(ret[1])
                  /\ reply[1].Report[1].AllPassed = (code = ExitSuccess)

\* three stores were selected, one result is trusted and one is not: the
\* command has ended with the trust-fail code
C22_Witness ==
    /\ Validated
    /\ Len(ret[1]) = 3
    /\ \E j, k \in 1..3 : ret[1][j].Trusted /\ ~ret[1][k].Trusted
    /\ reply[1].ExitCode = ExitTrustFail
    /\ ~reply[1].Report[1].AllPassed

(***************************************************************************)
(* Further properties of ValidateChain                                     *)
(***************************************************************************)
\* C23: no step of ValidateChain or of its goroutines, in any interleaving,
\* changes the CertChain (leaf, intermediates, SCTs), a Store (fingerprints
\* and constraints) or the certificate registry.
C23_InputsUnchanged ==
    [][chain' = chain /\ stores' = stores /\ Certs' = Certs]_vars

\* two different stores have been validated while the clock advanced, and
\* ValidateChain has returned
C23_Witness ==
    /\ Returned
    /\ Len(stores) = 2
    /\ stores[1] # stores[2]
    /\ Len(ret[1]) = 2
    /\ \A k \in 1..2 : task[k].pc = "done"
    /\ now > 1

\* no result is ranked before a result that precedes it
SortedByPlatformAndVersion(rs) ==
    \A i, j \in 1..Len(rs) : i < j => ~ResultLess(rs[j].Platform, rs[i].Platform)

\* C24 as stated: ValidateChain returns its results sorted by platform
\* (alphabetically) and version (ascending).
C24_AsStated ==
    ret # <<>> => SortedByPlatformAndVersion(ret[1])

(***************************************************************************)
(* Filter matching against version.Compare                                 *)
(***************************************************************************)
\* op holds of n against 0
OperatorHolds(op, n) ==
    \/ op = OpEqual /\ n = 0
    \/ op = OpGreater /\ n > 0
    \/ op = OpLess /\ n < 0
    \/ op = OpGreaterEqual /\ n >= 0
    \/ op = OpLessEqual /\ n <= 0

\* the result of Match is op applied to Compare(v, c), for every version text
\* c that the constraint of the call was parsed from
AgreesWithCompare(op) ==
    \A c \in VersionTokens :
        convertConstraint([Platform |-> call.pv.Platform, Operator |-> op,
                           Version |-> c]).Constraint = call.f[1].Constraints[1]
        => (reply[1] <=> OperatorHolds(op, Compare(call.pv.Version, c)))

\* C25 as stated: for every store version that is dotted-numeric or "current"
C25_AsStated ==
    \A op \in operatorStrategies :
        OneConstraint(op) /\ (IsDottedNumeric(call.pv.Version) \/ call.pv.Version = Current)
        => AgreesWithCompare(op)

\* C25 amended: for every operator, every constraint version c and every
\* store version v that is "current" or parses as a semantic version (one to
\* three dotted numbers, with or without a pre-release and metadata),
\* matchConstraint(platform op c, v) holds if and only if op holds of
\* Compare(v, c) against 0; a store version that does not parse matches no
\* numeric constraint, whatever the operator.
C25_MatchAgreesWithCompare ==
    \A op \in operatorStrategies :
        OneConstraint(op) =>
            /\ (ParsesAsSemver(call.pv.Version) \/ call.pv.Version = Current)
                  => AgreesWithCompare(op)
            /\ (~ParsesAsSemver(call.pv.Version) /\ call.pv.Version # Current
                /\ ~ConstraintIsCurrent) => reply[1] = FALSE

\* ios>=10 against ios 10.2: matched, and Compare("10.2", "10") is 1
C25_Witness ==
    /\ OneConstraint(OpGreaterEqual)
    /\ call.pv = [Platform |-> PlatformIOS, Version |-> <<49, 48, 46, 50>>]
    /\ call.f[1].Constraints[1].Version = <<[Major |-> <<49, 48>>, Minor |-> <<48>>, Patch |-> <<48>>,
                                              Pre |-> <<>>, Metadata |-> <<>>]>>
    /\ Compare(call.pv.Version, <<49, 48>>) = 1
    /\ reply = <<TRUE>>

(***************************************************************************)
(* truststore/store.go: the loader of the stores.  A record is the list of *)
(* its columns: platform, version, fingerprint text, then the three date   *)
(* columns.  A date column is <<>> for the empty string, <<"date", t>> for *)
(* an RFC 3339 text of the instant t, <<"text">> for any other text.       *)
(***************************************************************************)
MaxRecords == 3

\* time.Parse(time.RFC3339, column)
timeParse(column) ==
    IF column[1] = "date" THEN [Time |-> <<column[2]>>, Err |-> ""]
    ELSE [Time |-> <<>>, Err |-> "cannot parse"]

\* one column of parseConstraintColumns: k is the index of the column, the
\* constraint stays absent if the record is too short or the column empty
constraintColumn(record, k, format) ==
    IF Len(record) > k /\ record[k + 1] # <<>>
    THEN LET p == timeParse(record[k + 1])
         IN  IF p.Err # "" THEN [Time |-> <<>>, Err |-> <<format, record[k + 1]>>]
             ELSE [Time |-> p.Time, Err |-> <<>>]
    ELSE [Time |-> <<>>, Err |-> <<>>]

\* parseConstraintColumns: the columns are parsed in order, the first error
\* is returned with the constraints set so far
parseConstraintColumns(record) ==
    LET nbm == constraintColumn(record, 3, "parse not_before_max %s: %w")
        dd == constraintColumn(record, 4, "parse distrust_date %s: %w")
        sct == constraintColumn(record, 5, "parse sct_not_after %s: %w")
    IN  IF nbm.Err # <<>> THEN [Constraints |-> EmptyConstraints, Err |-> nbm.Err]
        ELSE IF dd.Err # <<>>
        THEN [Constraints |-> [EmptyConstraints EXCEPT !.NotBeforeMax = nbm.Time], Err |-> dd.Err]
        ELSE IF sct.Err # <<>>
        THEN [Constraints |-> [NotBeforeMax |-> nbm.Time, DistrustDate |-> dd.Time,
                               SCTNotAfter |-> <<>>],
              Err |-> sct.Err]
        ELSE [Constraints |-> [NotBeforeMax |-> nbm.Time, DistrustDate |-> dd.Time,
                               SCTNotAfter |-> sct.Time],
              Err |-> <<>>]

RECURSIVE parseStoreRecordsFrom(_, _, _)
\* the loop of parseStoreRecords from record k on; result maps each storeKey
\* met so far to its entries in the order of the records
parseStoreRecordsFrom(records, k, result) ==
    IF k > Len(records) THEN [Map |-> result, Err |-> <<>>]
    ELSE LET record == records[k]
             fp == ParseFingerprint(record[3])
             c == parseConstraintColumns(record)
             key == [platform |-> record[1], version |-> record[2]]
             entry == [fingerprint |-> fp.Fingerprint, constraints |-> c.Constraints]
             before == IF key \in DOMAIN result THEN result[key] ELSE <<>>
         IN  IF fp.Err # <<>>
             THEN [Map |-> <<>>, Err |-> <<"parse fingerprint %s: %w", record[3], fp.Err>>]
             ELSE IF c.Err # <<>> THEN [Map |-> <<>>, Err |-> c.Err]
             ELSE parseStoreRecordsFrom(records, k + 1,
                     [x \in DOMAIN result \cup {key} |->
                         IF x = key THEN Append(before, entry) ELSE result[x]])

parseStoreRecords(records) == parseStoreRecordsFrom(records, 1, <<>>)

\* buildStore with an entry of the map for every record, constrained or not
buildStoreEveryEntry(key, entries) ==
    [Platform |-> key.platform, Version |-> key.version,
     Fingerprints |-> [i \in 1..Len(entries) |-> entries[i].fingerprint],
     Constraints |-> [fp \in {entries[i].fingerprint : i \in 1..Len(entries)} |->
                         LET last == CHOOSE i \in 1..Len(entries) :
                                        /\ entries[i].fingerprint = fp
                                        /\ \A j \in (i + 1)..Len(entries) :
                                              entries[j].fingerprint # fp
                         IN  entries[last].constraints]]

\* buildStore: the map stays nil (<<>>) without a constrained entry; a later
\* entry of the same fingerprint replaces an earlier one
buildStore(key, entries) ==
    LET constrained == {i \in 1..Len(entries) : ~IsEmpty(entries[i].constraints)}
    IN  [Platform |-> key.platform, Version |-> key.version,
         Fingerprints |-> [i \in 1..Len(entries) |-> entries[i].fingerprint],
         Constraints |->
            IF constrained = {} THEN <<>>
            ELSE [fp \in {entries[i].fingerprint : i \in constrained} |->
                     LET last == CHOOSE i \in constrained :
                                    /\ entries[i].fingerprint = fp
                                    /\ \A j \in constrained :
                                          entries[j].fingerprint = fp => j <= i
                     IN  entries[last].constraints]]

\* the orders in which the range over storeMap may visit its keys
KeyOrders(storeMap) ==
    {order \in [1..Cardinality(DOMAIN storeMap) -> DOMAIN storeMap] :
        \A i, j \in DOMAIN order : i # j => order[i] # order[j]}

\* loadStores after the header, the keys visited in the given order
loadStores(records, order) ==
    LET parsed == parseStoreRecords(records)
    IN  IF parsed.Err # <<>> THEN [Stores |-> <<>>, Err |-> parsed.Err]
        ELSE [Stores |-> [k \in 1..Len(order) |-> buildStore(order[k], parsed.Map[order[k]])],
              Err |-> <<>>]

\* one run of loadStores; Go visits the keys of a map in an unspecified order
CallLoadStores ==
    /\ call # <<>> /\ call.fn = "loadStores"
    /\ reply = <<>>
    /\ LET parsed == parseStoreRecords(call.records)
       IN  \E order \in (IF parsed.Err # <<>> THEN {<<>>} ELSE KeyOrders(parsed.Map)) :
              reply' = <<loadStores(call.records, order)>>
    /\ UNCHANGED <<call, validation>>

\* the text of a digest as the data file writes it, and in a second spelling
UpperColon(f) == FingerprintText(f, <<58>>, FALSE)
LowerRaw(f) == FingerprintText(f, <<>>, TRUE)

\* records of three stores: ios 2, ios 10, android 2; the same fingerprint
\* twice in one store, in one spelling or in two, with and without
\* constraints; a date and a fingerprint that do not parse
SampleRecords ==
    LET a == CHOOSE f \in SampleFingerprints : f[1] = 215
        b == CHOOSE f \in SampleFingerprints : f[1] = 1
    IN  {<<PlatformIOS, <<50>>, UpperColon(a), <<>>, <<>>, <<>>>>,
         <<PlatformIOS, <<50>>, LowerRaw(a), <<>>, <<"date", 2>>, <<>>>>,
         <<PlatformIOS, <<50>>, UpperColon(b), <<"date", 1>>, <<>>, <<"date", 2>>>>,
         <<PlatformAndroid, <<50>>, UpperColon(a), <<>>, <<>>, <<>>>>,
         <<PlatformIOS, <<49, 48>>, UpperColon(b), <<>>, <<>>, <<"date", 3>>>>,
         <<PlatformIOS, <<50>>, UpperColon(b), <<>>, <<"text">>, <<>>>>,
         <<PlatformIOS, <<50>>, <<122, 122>>, <<>>, <<>>, <<>>>>}

\* the records of a file whose lines have width columns
RecordsOfWidth(width) == {SubSeq(r, 1, width) : r \in SampleRecords}

InitLoadStores ==
    /\ InitIdle
    /\ \E width \in {4, 6} : \E records \in SeqsUpTo(RecordsOfWidth(width), MaxRecords) :
          call = [fn |-> "loadStores", records |-> records]
    /\ reply = <<>>

SpecLoadStores == InitLoadStores /\ [][CallLoadStores]_vars

\* loadStores has ended without error
Loaded == reply # <<>> /\ call.fn = "loadStores" /\ reply[1].Err = <<>>

\* the records of the call that belong to the store s, in their order
RecordsOf(s) ==
    SelectSeq(call.records, LAMBDA r : r[1] = s.Platform /\ r[2] = s.Version)

\* the fingerprint a record names
RecordFingerprint(r) == ParseFingerprint(r[3]).Fingerprint

\* at least one of the date columns of the record is present and not empty
RecordConstrained(r) == \E k \in 4..6 : Len(r) >= k /\ r[k] # <<>>

NoDuplicates(seq) == \A i, j \in 1..Len(seq) : i # j => seq[i] # seq[j]

\* the keys of a Constraints map, none for the nil map
ConstraintKeys(s) == IF s.Constraints = <<>> THEN {} ELSE DOMAIN s.Constraints

\* one store per distinct (platform, version) of the records
OneStorePerKey ==
    LET keys == {<<call.records[k][1], call.records[k][2]>> : k \in 1..Len(call.records)}
        ids == [k \in 1..Len(reply[1].Stores) |->
                   <<reply[1].Stores[k].Platform, reply[1].Stores[k].Version>>]
    IN  Range(ids) = keys /\ NoDuplicates(ids)

\* the Constraints map holds no empty entry and no key outside Fingerprints,
\* and has an entry exactly for the fingerprints of the constrained records
ConstraintsWellFormed(s) ==
    /\ ConstraintKeys(s) \subseteq Range(s.Fingerprints)
    /\ \A fp \in ConstraintKeys(s) : ~IsEmpty(s.Constraints[fp])
    /\ ConstraintKeys(s) =
          {RecordFingerprint(r) : r \in {q \in Range(RecordsOf(s)) : RecordConstrained(q)}}

\* C26 as stated: from any records, every store is well formed; among other
\* things its Fingerprints list contains no duplicates
C26_AsStated ==
    Loaded =>
        /\ OneStorePerKey
        /\ \A k \in 1..Len(reply[1].Stores) :
              /\ NoDuplicates(reply[1].Stores[k].Fingerprints)
              /\ ConstraintsWellFormed(reply[1].Stores[k])

\* C26 amended: from any records that load without error there is exactly
\* one Store per distinct (platform, version); its Fingerprints list holds
\* the fingerprint of each of its records, in their order, so it is free of
\* duplicates exactly if no two of its records name the same fingerprint;
\* its Constraints map has an entry exactly for the fingerprints of a
\* record with at least one constraint field set, never an entry with all
\* three fields empty, never a key outside Fingerprints.
C26_LoaderWellFormed ==
    Loaded =>
        /\ OneStorePerKey
        /\ \A k \in 1..Len(reply[1].Stores) :
              LET s == reply[1].Stores[k]
                  rs == RecordsOf(s)
              IN  /\ s.Fingerprints = [i \in 1..Len(rs) |-> RecordFingerprint(rs[i])]
                  /\ NoDuplicates(s.Fingerprints) <=>
                        \A i, j \in 1..Len(rs) :
                            i # j => RecordFingerprint(rs[i]) # RecordFingerprint(rs[j])
                  /\ ConstraintsWellFormed(s)

\* three records of two stores have been loaded: one store has two
\* fingerprints, a constraint on one of them only
C26_Witness ==
    /\ Loaded
    /\ Len(call.records) = 3
    /\ Len(reply[1].Stores) = 2
    /\ \E k \in 1..2 :
          LET s == reply[1].Stores[k]
          IN  /\ Len(s.Fingerprints) = 2
              /\ NoDuplicates(s.Fingerprints)
              /\ Cardinality(ConstraintKeys(s)) = 1

(***************************************************************************)
(* Further properties of the results                                       *)
(***************************************************************************)
\* the FailureReason is the empty string
ReasonEmpty(reason) == reason = <<>> \/ reason = <<"">>

\* the failure paths of validateAgainstStore, read off the goroutine of store
\* n: no root resolved, the verification failed (with the last intermediate a
\* known but missing root, or not), a constraint of the matched root violated
FailurePath(n) ==
    \/ rootCertsOf(Certs, stores[n].Fingerprints) = <<>>
    \/ ~Verified(n)
    \/ checkConstraints(chain, RootConstraints(n), task[n].tCheck[1]) # <<>>

\* C27: every TrustResult returned by ValidateChain has Trusted true if and
\* only if its FailureReason is empty; every failure path (no roots,
\* verification error, known-but-missing root, constraint violation) sets a
\* non-empty FailureReason and leaves Trusted false.
C27_TrustedIffNoReason ==
    Returned =>
        \A n \in 1..Len(ret[1]) :
            /\ ret[1][n].Trusted <=> ReasonEmpty(ret[1][n].FailureReason)
            /\ FailurePath(n) <=> ~ret[1][n].Trusted

\* a store whose roots resolve does not anchor the chain: the result is
\* untrusted and carries the text of the verification error
C27_Witness ==
    /\ Returned
    /\ Len(ret[1]) = 1
    /\ rootCertsOf(Certs, stores[1].Fingerprints) # <<>>
    /\ ~Verified(1)
    /\ ~ret[1][1].Trusted
    /\ ret[1][1].FailureReason = <<"certificate signed by unknown authority">>

\* C28 as stated: two stores with identical fingerprints and identical
\* constraints receive the same Trusted value and the same FailureReason,
\* under every interleaving and every advance of the clock during the run.
C28_AsStated ==
    Returned =>
        \A j, k \in 1..Len(ret[1]) :
            /\ stores[j].Fingerprints = stores[k].Fingerprints
            /\ stores[j].Constraints = stores[k].Constraints
            => /\ ret[1][j].Trusted = ret[1][k].Trusted
               /\ ret[1][j].FailureReason = ret[1][k].FailureReason

\* the roots at which the chains verified for store n end
VerifiedRoots(n) == {task[n].chains[k][Len(task[n].chains[k])] : k \in 1..Len(task[n].chains)}

\* the constraints the store puts on the root are satisfied at the instant
\* of the check (or it has none)
RootSatisfied(n, root) ==
    checkConstraints(chain, ConstraintFor(stores[n], Fp(root)), task[n].tCheck[1]) = <<>>

\* C29 as stated: if the verification yields several chains ending at
\* different roots of the store, the result is Trusted whenever at least one
\* of those roots has all its constraints satisfied (or has none).
C29_AsStated ==
    Returned =>
        \A n \in 1..Len(ret[1]) :
            (Verified(n) /\ Cardinality(VerifiedRoots(n)) > 1
             /\ \E root \in VerifiedRoots(n) : RootSatisfied(n, root))
            => ret[1][n].Trusted

(***************************************************************************)
(* extractEmbeddedSCTs on lists whose declared length is not the length of *)
(* what follows                                                            *)
(***************************************************************************)
\* one call of extractEmbeddedSCTs
CallExtractEmbeddedSCTs ==
    /\ call # <<>> /\ call.fn = "extractEmbeddedSCTs"
    /\ reply = <<>>
    /\ reply' = <<extractEmbeddedSCTs(<<call.cert>>)>>
    /\ UNCHANGED <<call, validation>>

\* the lengths a list of the given entries is declared with: its own, none,
\* one that ends inside the first entry, one that ends after the first entry
DeclaredLengths(entries) ==
    {Len(EntriesBytes(entries)), 0}
    \cup (IF entries = <<>> THEN {}
          ELSE {sctLengthPrefixSize + 1, sctLengthPrefixSize + Len(entries[1])})

\* the bytes that may follow the list in the value: none, or one more entry
ExtraBytes == {<<>>, EntriesBytes(<<CHOOSE e \in SampleEntries : Len(e) = 46>>)}

InitEmbeddedSCTs ==
    /\ InitIdle
    /\ \E entries \in SeqsUpTo(SampleEntries, MaxSCTs), extra \in ExtraBytes :
          \E listLen \in DeclaredLengths(entries) :
             LET value == Uint16Bytes(listLen) \o EntriesBytes(entries) \o extra
             IN  call = [fn |-> "extractEmbeddedSCTs", listLen |-> listLen, value |-> value,
                         cert |-> CertWith(<<OctetString(value)>>)]
    /\ reply = <<>>

SpecEmbeddedSCTs == InitEmbeddedSCTs /\ [][CallExtractEmbeddedSCTs]_vars

\* the entries that lie entirely within the region: each after its length,
\* up to the first one that would pass the end of the region
RECURSIVE EntriesWithin(_)
EntriesWithin(region) ==
    IF Len(region) < 2 THEN <<>>
    ELSE LET n == BigEndianUint16(SubSeq(region, 1, 2))
         IN  IF 2 + n > Len(region) THEN <<>>
             ELSE <<SubSeq(region, 3, 2 + n)>> \o EntriesWithin(SubSeq(region, 3 + n, Len(region)))

\* C30 as stated: every SCT returned comes from an entry that lies entirely
\* within the first 2+listLen bytes of the extension value, where listLen is
\* the declared length of the list: the SCTs returned are those of the
\* well-formed entries of that region.
C30_AsStated ==
    (reply # <<>> /\ call.fn = "extractEmbeddedSCTs") =>
        reply[1] = WellFormedSCTs(EntriesWithin(SubSeq(call.value, 3, 2 + call.listLen)),
                                  SCTSourceEmbedded)
====
